---------------------------- MODULE Spec2Model ----------------------------
(***************************************************************************)
(* Model of the "understand-then-reconcile" core of CleanDataAI:           *)
(*   - unify_sources            (app/application/multisource.py)           *)
(*   - _attach_ml_envios_to_ml_ventas (app/application/pipeline.py)        *)
(*   - infer_semantics          (app/application/semantics.py)             *)
(* Text values are sequences of one-character strings so that the          *)
(* normalisations of the code (strip, lower, regex substitutions) are      *)
(* computed and not assumed.                                               *)
(***************************************************************************)
EXTENDS Integers, Sequences, FiniteSets, TLC

VARIABLES
    u_pc,            \* unify_sources: "input" | "done" | "raised"
    hasSK,           \* multisource._HAS_SK: sklearn importable in this process
    named_dfs,       \* unify_sources: the list of (file_name, DataFrame) given
    per_source_maps, \* unify_sources: one col_map per file
    all_cols,        \* unify_sources: set of final output names
    result,          \* unify_sources: the returned DataFrame
    r_pc,            \* _attach_ml_envios_to_ml_ventas: "input" | "done"
    df_raw_all,      \* _attach_ml_envios_to_ml_ventas: the table given
    attach,          \* _attach_ml_envios_to_ml_ventas: the returned {"df", "stats"}
    s_pc,            \* infer_semantics: "scoring" | "done"
    df_cols,         \* infer_semantics: the columns of df scored so far
    roles,           \* infer_semantics: roles, by column position
    confs,           \* infer_semantics: confs, by column position
    geo_lat,         \* infer_semantics: position of the column held in geo_lat, 0 for None
    geo_lon,         \* infer_semantics: position of the column held in geo_lon, 0 for None
    g_pc,            \* _guess_unified_name: where each caller is
    g_col,           \* _guess_unified_name: the column resolved (name, dtype, encoder's match)
    g_model,         \* _st_best_match: each caller's local `model`
    g_res,           \* _guess_unified_name: each caller's returned name
    hasST,           \* multisource._HAS_ST
    st_model,        \* multisource._st_model
    st_canonical_emb, \* multisource._st_canonical_emb
    f_pc,            \* _fix_structural_errors: "input" | "done"
    f_df,            \* _fix_structural_errors: the table given
    f_out,           \* _fix_structural_errors: the returned (out, fixes)
    h_pc,            \* _unique_headers: "input" | "done"
    h_cols,          \* _unique_headers: the raw headers given
    h_out,           \* _unique_headers: the returned list
    m_pc,            \* _merge_multichannel_files: "start" | "loop" | "done"
    m_dir,           \* _merge_multichannel_files: input_dir, whether it exists and its entries
    m_i,             \* _merge_multichannel_files: position of the loop in the sorted entries
    dfs,             \* _merge_multichannel_files: dfs
    m_out,           \* _merge_multichannel_files: the returned table, or that it raised
    status_json,     \* runs/{id}/status.json of every id
    history,         \* runs/{id}/history.jsonl of every id: the event types
    art_files,       \* runs/{id}/artifacts of every id: the files in it
    uploads,         \* runs/{id}/input of every id: the kind of the uploaded file
    tasks,           \* the background tasks added so far: run, phase, position, local status
    resp,            \* the last HTTP response
    pm_pc,           \* _parse_money_value: "input" | "done"
    pm_val,          \* _parse_money_value: the cell given
    pm_out,          \* _parse_money_value: the returned (value, currency)
    a_names,         \* the run directory: the file each of status.json, status.tmp names
    a_inodes,        \* the content of every file of the run directory, in chunks
    a_pc,            \* write_status: where each writer is
    a_fd,            \* write_status: the file each writer holds open as f
    a_off,           \* write_status: the offset of f, in chunks
    a_len,           \* write_status: the length of the document each writer dumps
    a_read,          \* read_status: what the last call obtained
    l_pc,            \* run_ingestion_phase, multi mode: "ingesta" | "done" (Limpieza has ended)
    dataset_limpio   \* artifacts/dataset_limpio.csv of the run

uvars == <<u_pc, hasSK, named_dfs, per_source_maps, all_cols, result>>
rvars == <<r_pc, df_raw_all, attach>>
svars == <<s_pc, df_cols, roles, confs, geo_lat, geo_lon>>
gvars == <<g_pc, g_col, g_model, g_res, hasST, st_model, st_canonical_emb>>
fvars == <<f_pc, f_df, f_out>>
hvars == <<h_pc, h_cols, h_out>>
mvars == <<m_pc, m_dir, m_i, dfs, m_out>>
pvars == <<status_json, history, art_files, uploads, tasks, resp>>
yvars == <<pm_pc, pm_val, pm_out>>
avars == <<a_names, a_inodes, a_pc, a_fd, a_off, a_len, a_read>>
lvars == <<l_pc, dataset_limpio>>
vars == <<uvars, rvars, svars, gvars, fvars, hvars, mvars, pvars, yvars, avars, lvars>>

\* what the steps of one function leave alone: the state of the others
rest_unify == <<rvars, svars, gvars, fvars, hvars, mvars, pvars, yvars, avars, lvars>>
rest_recon == <<uvars, svars, gvars, fvars, hvars, mvars, pvars, yvars, avars, lvars>>
rest_sem == <<uvars, rvars, gvars, fvars, hvars, mvars, pvars, yvars, avars, lvars>>
rest_guess == <<uvars, rvars, svars, fvars, hvars, mvars, pvars, yvars, avars, lvars>>
rest_fix == <<uvars, rvars, svars, gvars, hvars, mvars, pvars, yvars, avars, lvars>>
rest_hdr == <<uvars, rvars, svars, gvars, fvars, mvars, pvars, yvars, avars, lvars>>
rest_merge == <<uvars, rvars, svars, gvars, fvars, hvars, pvars, yvars, avars, lvars>>
rest_run == <<uvars, rvars, svars, gvars, fvars, hvars, mvars, yvars, avars, lvars>>
rest_money == <<uvars, rvars, svars, gvars, fvars, hvars, mvars, pvars, avars, lvars>>
rest_write == <<uvars, rvars, svars, gvars, fvars, hvars, mvars, pvars, yvars, lvars>>
rest_limpieza == <<uvars, svars, gvars, fvars, hvars, mvars, pvars, yvars, avars>>

\* ------------------------------------------------------------------ bounds
MaxFiles == 2
MaxCols == 3
MaxRowsU == 1
MaxRowsR == 3
MaxColsS == 3
TableRows == 50
Callers == 2
MaxRowsF == 4
MaxHeaders == 3
MaxRuns == 2
MaxTasks == 2
MaxCell == 5
MaxWriters == 2
MaxChunks == 2

\* ------------------------------------------------------------ text helpers
NA == "<NA>"
None == "None"

LowerOf ==
    [A |-> "a", B |-> "b", C |-> "c", D |-> "d", E |-> "e", F |-> "f", G |-> "g",
     H |-> "h", I |-> "i", J |-> "j", K |-> "k", L |-> "l", M |-> "m", N |-> "n",
     O |-> "o", P |-> "p", Q |-> "q", R |-> "r", S |-> "s", T |-> "t", U |-> "u",
     V |-> "v", W |-> "w", X |-> "x", Y |-> "y", Z |-> "z"]

\* code-point order of the characters a slug can hold ([0-9] < "_" < [a-z])
Alphabet ==
    <<"0", "1", "2", "3", "4", "5", "6", "7", "8", "9", "_",
      "a", "b", "c", "d", "e", "f", "g", "h", "i", "j", "k", "l", "m",
      "n", "o", "p", "q", "r", "s", "t", "u", "v", "w", "x", "y", "z">>

SlugChars == {Alphabet[i] : i \in 1..Len(Alphabet)}

Whitespace == {" ", "\t"}

RECURSIVE IndexOf(_, _, _)
IndexOf(s, c, i) == IF i > Len(s) THEN 0 ELSE IF s[i] = c THEN i ELSE IndexOf(s, c, i + 1)

CharOrd(c) == IndexOf(Alphabet, c, 1)

\* str.lower() on one character
LowerChar(c) == IF c \in DOMAIN LowerOf THEN LowerOf[c] ELSE c

\* str.lower()
Lower(s) == [i \in 1..Len(s) |-> LowerChar(s[i])]

RECURSIVE LStrip(_, _)
LStrip(s, cs) == IF s # <<>> /\ Head(s) \in cs THEN LStrip(Tail(s), cs) ELSE s

RECURSIVE RStrip(_, _)
RStrip(s, cs) == IF s # <<>> /\ s[Len(s)] \in cs
                 THEN RStrip(SubSeq(s, 1, Len(s) - 1), cs) ELSE s

\* str.strip() / str.strip(chars)
Strip(s, cs) == RStrip(LStrip(s, cs), cs)

\* re.sub(r"[cs]+", r, s): every maximal run of characters of cs becomes r
RECURSIVE SubRuns(_, _, _)
SubRuns(s, cs, r) ==
    IF s = <<>> THEN <<>>
    ELSE IF Head(s) \in cs
         THEN <<r>> \o SubRuns(LStrip(s, cs), cs, r)
         ELSE <<Head(s)>> \o SubRuns(Tail(s), cs, r)

\* str.replace(a, b) for single characters
Replace(s, a, b) == [i \in 1..Len(s) |-> IF s[i] = a THEN b ELSE s[i]]

\* re.sub(r"[^a-z0-9_]", "_", s)
NonSlugToUnderscore(s) == [i \in 1..Len(s) |-> IF s[i] \in SlugChars THEN s[i] ELSE "_"]

\* the text of a character sequence, as a string
RECURSIVE Str(_)
Str(s) == IF s = <<>> THEN "" ELSE Head(s) \o Str(Tail(s))

\* "sub in s" (substring test)
Contains(s, sub) ==
    \E i \in 1..(Len(s) - Len(sub) + 1) : SubSeq(s, i, i + Len(sub) - 1) = sub

\* decimal digits of a positive integer (f"{n}")
RECURSIVE Digits(_)
Digits(n) == IF n < 10 THEN <<Alphabet[n + 1]>>
             ELSE Digits(n \div 10) \o <<Alphabet[(n % 10) + 1]>>

\* lexicographic order of two slugs (Python's str comparison)
RECURSIVE StrLess(_, _)
StrLess(a, b) ==
    IF b = <<>> THEN FALSE
    ELSE IF a = <<>> THEN TRUE
    ELSE IF CharOrd(Head(a)) # CharOrd(Head(b)) THEN CharOrd(Head(a)) < CharOrd(Head(b))
    ELSE StrLess(Tail(a), Tail(b))

\* sorted(set of slugs)
RECURSIVE Sorted(_)
Sorted(S) ==
    IF S = {} THEN <<>>
    ELSE LET m == CHOOSE x \in S : \A y \in S \ {x} : StrLess(x, y)
         IN <<m>> \o Sorted(S \ {m})

Range(f) == {f[i] : i \in DOMAIN f}

\* F applied to the value of e, e being evaluated once
With(e, F(_)) == CHOOSE r \in {F(x) : x \in {e}} : TRUE

\* ------------------------------------------------- multisource.py: vocabulary
\* keys of _CANONICAL_FIELDS
CanonSeq ==
    [fecha |-> <<"f", "e", "c", "h", "a">>, id_transaccion |-> <<"i", "d", "_", "t", "r", "a", "n", "s", "a", "c", "c", "i", "o", "n">>, sku |-> <<"s", "k", "u">>,
     cliente |-> <<"c", "l", "i", "e", "n", "t", "e">>, producto |-> <<"p", "r", "o", "d", "u", "c", "t", "o">>, categoria |-> <<"c", "a", "t", "e", "g", "o", "r", "i", "a">>,
     moneda |-> <<"m", "o", "n", "e", "d", "a">>, monto |-> <<"m", "o", "n", "t", "o">>, precio_unitario |-> <<"p", "r", "e", "c", "i", "o", "_", "u", "n", "i", "t", "a", "r", "i", "o">>,
     cantidad |-> <<"c", "a", "n", "t", "i", "d", "a", "d">>, bodega |-> <<"b", "o", "d", "e", "g", "a">>, stock |-> <<"s", "t", "o", "c", "k">>,
     metodo_pago |-> <<"m", "e", "t", "o", "d", "o", "_", "p", "a", "g", "o">>, canal |-> <<"c", "a", "n", "a", "l">>, proveedor |-> <<"p", "r", "o", "v", "e", "e", "d", "o", "r">>]

_CANONICAL_FIELDS == {CanonSeq[k] : k \in DOMAIN CanonSeq}

\* (_CANONICAL_NAMES[i], _CANONICAL_TEXTS[i]): every synonym, normalised, then the
\* canonical name itself, in the order of the dict
_CANONICAL_TEXTS ==
    <<
      <<"fecha", "fecha">>, <<"fecha", "fecha venta">>, <<"fecha", "fecha pedido">>,
      <<"fecha", "fecha creacion">>, <<"fecha", "order date">>, <<"fecha", "date">>,
      <<"fecha", "created at">>, <<"fecha", "fecha transaccion">>, <<"fecha", "fecha movimiento">>,
      <<"fecha", "fecha">>, <<"id_transaccion", "id transaccion">>, <<"id_transaccion", "id venta">>,
      <<"id_transaccion", "id pedido">>, <<"id_transaccion", "order id">>, <<"id_transaccion", "transaction id">>,
      <<"id_transaccion", "folio">>, <<"id_transaccion", "n venta">>, <<"id_transaccion", "id transaccion">>,
      <<"sku", "sku">>, <<"sku", "codigo producto">>, <<"sku", "id producto">>,
      <<"sku", "product id">>, <<"sku", "codigo">>, <<"sku", "sku producto">>,
      <<"sku", "sku">>, <<"cliente", "cliente">>, <<"cliente", "nombre cliente">>,
      <<"cliente", "customer">>, <<"cliente", "buyer">>, <<"cliente", "comprador">>,
      <<"cliente", "razon social">>, <<"cliente", "cliente">>, <<"producto", "producto">>,
      <<"producto", "nombre producto">>, <<"producto", "producto nombre">>, <<"producto", "item">>,
      <<"producto", "descripcion producto">>, <<"producto", "product name">>, <<"producto", "producto">>,
      <<"categoria", "categoria">>, <<"categoria", "segmento">>, <<"categoria", "category">>,
      <<"categoria", "familia">>, <<"categoria", "rubro">>, <<"categoria", "linea">>,
      <<"categoria", "categoria">>, <<"moneda", "moneda">>, <<"moneda", "currency">>,
      <<"moneda", "divisa">>, <<"moneda", "tipo moneda">>, <<"moneda", "moneda">>,
      <<"monto", "monto">>, <<"monto", "total">>, <<"monto", "importe">>,
      <<"monto", "valor total">>, <<"monto", "order total">>, <<"monto", "subtotal">>,
      <<"monto", "precio total">>, <<"monto", "neto">>, <<"monto", "bruto">>,
      <<"monto", "valor venta">>, <<"monto", "monto">>, <<"precio_unitario", "precio unitario">>,
      <<"precio_unitario", "precio">>, <<"precio_unitario", "unit price">>, <<"precio_unitario", "precio lista">>,
      <<"precio_unitario", "valor unitario">>, <<"precio_unitario", "precio unitario">>, <<"cantidad", "cantidad">>,
      <<"cantidad", "qty">>, <<"cantidad", "quantity">>, <<"cantidad", "unidades">>,
      <<"cantidad", "cant">>, <<"cantidad", "cantidad vendida">>, <<"cantidad", "stock salida">>,
      <<"cantidad", "cantidad">>, <<"bodega", "bodega">>, <<"bodega", "almacen">>,
      <<"bodega", "almacén">>, <<"bodega", "warehouse">>, <<"bodega", "deposito">>,
      <<"bodega", "bodega">>, <<"stock", "stock">>, <<"stock", "inventario">>,
      <<"stock", "existencias">>, <<"stock", "qty stock">>, <<"stock", "cantidad disponible">>,
      <<"stock", "stock">>, <<"metodo_pago", "metodo pago">>, <<"metodo_pago", "medio pago">>,
      <<"metodo_pago", "forma pago">>, <<"metodo_pago", "payment method">>, <<"metodo_pago", "metodo de pago">>,
      <<"metodo_pago", "metodo pago">>, <<"canal", "canal">>, <<"canal", "origen">>,
      <<"canal", "source">>, <<"canal", "marketplace">>, <<"canal", "plataforma">>,
      <<"canal", "platform">>, <<"canal", "tienda">>, <<"canal", "channel">>,
      <<"canal", "canal">>, <<"proveedor", "proveedor">>, <<"proveedor", "supplier">>,
      <<"proveedor", "vendor">>, <<"proveedor", "vendedor">>, <<"proveedor", "proveedor">>
    >>

\* ------------------------------------------------ multisource.py: functions
\* _normalize_text
_normalize_text(s) ==
    SubRuns(Replace(Replace(Lower(Strip(s, Whitespace)), "_", " "), "-", " "),
            Whitespace, " ")

\* _slug_header
_slug_header(raw) ==
    LET s1 == Lower(Strip(raw, Whitespace))
        s2 == SubRuns(s1, Whitespace, " ")
        s3 == Replace(s2, " ", "_")
        s4 == NonSlugToUnderscore(s3)
    IN Strip(SubRuns(s4, {"_"}, "_"), {"_"})

\* _tfidf_best_match: (canonical name, cosine in hundredths).  The cosine of the
\* char n-gram vectors is 1 for a text that is a vocabulary phrase and 0 (so that
\* argmax is index 0) for a text that shares no 3/4-gram with the vocabulary; the
\* headers of RawColumns are of these two kinds.
_tfidf_best_match(text, sk) ==
    IF ~sk THEN <<None, 0>>
    ELSE With(_normalize_text(text), LAMBDA t :
        IF t = <<>> THEN <<None, 0>>
        ELSE With(Str(t), LAMBDA st :
            With({i \in 1..Len(_CANONICAL_TEXTS) : _CANONICAL_TEXTS[i][2] = st}, LAMBDA hits :
                IF hits # {}
                THEN <<_CANONICAL_TEXTS[CHOOSE i \in hits : \A j \in hits : i <= j][1], 100>>
                ELSE <<_CANONICAL_TEXTS[1][1], 0>>)))

\* _st_best_match with sentence_transformers not importable (_HAS_ST = False)
_st_best_match(text) ==
    LET t == _normalize_text(text)
    IN <<None, 0>>

\* _best_canonical
_best_canonical(text, sk) ==
    With(_tfidf_best_match(text, sk), LAMBDA m1 :
        With(_st_best_match(text), LAMBDA m2 :
            IF m2[2] > m1[2] THEN m2 ELSE m1))

\* the decision of _guess_unified_name once slug, best and score are known
GuessFrom(slug, dtype, best, score) ==
    IF slug \in _CANONICAL_FIELDS THEN slug
    ELSE IF dtype = "datetime" /\ (best = None \/ (best # "fecha" /\ score < 65))
         THEN CanonSeq.fecha
    ELSE IF dtype = "numeric" /\ best = "monto" /\ score >= 35
         THEN CanonSeq.monto
    ELSE IF dtype = "numeric" /\ best = "cantidad" /\ score >= 35
         THEN CanonSeq.cantidad
    ELSE IF best # None /\ score >= 45 THEN CanonSeq[best]
    ELSE slug

\* _guess_unified_name(col_name, series); the series counts by its dtype only
_guess_unified_name(col, sk) ==
    With(_slug_header(col.name), LAMBDA slug :
        With(_best_canonical(slug, sk), LAMBDA m :
            GuessFrom(slug, col.dtype, m[1], m[2])))

\* _infer_channel_from_filename
_infer_channel_from_filename(name) ==
    LET s == Lower(name)
    IN IF Contains(s, <<"i", "n", "s", "t", "a", "g", "r", "a", "m">>) \/ Contains(s, <<"i", "g", "_">>) THEN <<"I", "n", "s", "t", "a", "g", "r", "a", "m", "S", "h", "o", "p">>
       ELSE IF Contains(s, <<"m", "e", "r", "c", "a", "d", "o">>) \/ Contains(s, <<"m", "e", "l", "i">>)
               \/ Contains(s, <<"m", "e", "r", "c", "a", "d", "o", "l", "i", "b", "r", "e">>) \/ Contains(s, <<"m", "l", "_">>)
            THEN <<"M", "e", "r", "c", "a", "d", "o", "L", "i", "b", "r", "e">>
       ELSE IF Contains(s, <<"b", "o", "d", "e", "g", "a">>) \/ Contains(s, <<"s", "t", "o", "c", "k">>)
               \/ Contains(s, <<"i", "n", "v", "e", "n", "t", "a", "r", "i", "o">>) \/ Contains(s, <<"w", "a", "r", "e", "h", "o", "u", "s", "e">>)
            THEN <<"B", "o", "d", "e", "g", "a">>
       ELSE IF Contains(s, <<"p", "r", "o", "v", "e", "e", "d", "o", "r">>) \/ Contains(s, <<"s", "u", "p", "p", "l", "i", "e", "r">>)
               \/ Contains(s, <<"v", "e", "n", "d", "o", "r">>)
            THEN <<"P", "r", "o", "v", "e", "e", "d", "o", "r">>
       ELSE <<"D", "e", "s", "c", "o", "n", "o", "c", "i", "d", "o">>

\* the suffixing of unify_sources: the n-th column of a file resolving to
\* `unified` keeps it when n = 1 and becomes "<unified>_<n>" otherwise
final_name(unified, n) == IF n = 1 THEN unified ELSE unified \o <<"_">> \o Digits(n)

\* the inner loop of step 1 over df.columns: col_map, as the list of final names
\* of the file's columns in order (the raw names of a file are distinct)
RECURSIVE MapCols(_, _, _, _)
MapCols(cols, sk, dest_counts, acc) ==
    IF cols = <<>> THEN acc
    ELSE With(_guess_unified_name(Head(cols), sk), LAMBDA unified :
        With((IF unified \in DOMAIN dest_counts THEN dest_counts[unified] ELSE 0) + 1,
             LAMBDA n :
                MapCols(Tail(cols), sk,
                        [k \in DOMAIN dest_counts \cup {unified} |->
                            IF k = unified THEN n ELSE dest_counts[k]],
                        Append(acc, final_name(unified, n)))))

col_map(df, sk) == MapCols(df.columns, sk, <<>>, <<>>)

canonical_priority ==
    <<CanonSeq.fecha, CanonSeq.id_transaccion, CanonSeq.cliente, CanonSeq.proveedor,
      CanonSeq.producto, CanonSeq.categoria, CanonSeq.sku, CanonSeq.moneda,
      CanonSeq.precio_unitario, CanonSeq.cantidad, CanonSeq.monto,
      CanonSeq.metodo_pago, CanonSeq.canal, CanonSeq.bodega, CanonSeq.stock>>

\* faulty variant: the non-canonical columns are forgotten
final_order_no_others(cols) == SelectSeq(canonical_priority, LAMBDA c : c \in cols)

\* step 2: canonical_first + sorted(others)
final_order(cols) ==
    LET canonical_first == SelectSeq(canonical_priority, LAMBDA c : c \in cols)
        others == Sorted(cols \ Range(canonical_first))
    IN canonical_first \o others

\* ---- frames: [columns: list of labels (may repeat), rows: list of lists of cells]
NAcell == <<>>

\* df.copy() with tmp.columns = [col_map...]; cell (f, c, r) is the value of
\* column c in row r of file f
Renamed(f, df, cmap) ==
    [columns |-> cmap,
     rows |-> [r \in 1..df.nrows |-> [c \in 1..Len(df.columns) |-> <<f, c, r>>]]]

\* tmp[col] = value: overwrites every column labelled col, or appends a new one
SetColumn(tmp, col, value) ==
    With(tmp, LAMBDA t :
        IF col \in Range(t.columns)
        THEN [t EXCEPT !.rows = [r \in 1..Len(t.rows) |->
                  [c \in 1..Len(t.columns) |->
                      IF t.columns[c] = col THEN value ELSE t.rows[r][c]]]]
        ELSE [columns |-> Append(t.columns, col),
              rows |-> [r \in 1..Len(t.rows) |-> Append(t.rows[r], value)]])

\* for col in final_order: if col not in tmp.columns: tmp[col] = pd.NA
RECURSIVE AddMissing(_, _)
AddMissing(tmp, order) ==
    IF order = <<>> THEN tmp
    ELSE With(tmp, LAMBDA t :
             AddMissing(IF Head(order) \in Range(t.columns) THEN t
                        ELSE SetColumn(t, Head(order), NAcell),
                        Tail(order)))

\* positions selected by tmp[labels]: for each label, every column carrying it
RECURSIVE Positions(_, _)
Positions(columns, labels) ==
    IF labels = <<>> THEN <<>>
    ELSE SelectSeq([i \in 1..Len(columns) |-> i], LAMBDA i : columns[i] = Head(labels))
         \o Positions(columns, Tail(labels))

\* tmp = tmp[final_order]
Reorder(tmp, order) ==
    With(tmp, LAMBDA t :
        With(Positions(t.columns, order), LAMBDA pos :
            [columns |-> [i \in 1..Len(pos) |-> t.columns[pos[i]]],
             rows |-> [r \in 1..Len(t.rows) |-> [i \in 1..Len(pos) |-> t.rows[r][pos[i]]]]]))

\* the body of step 3 for file f
unified_frame(f, df, cmap, order) ==
    SetColumn(
        SetColumn(Reorder(AddMissing(Renamed(f, df, cmap), order), order),
                  <<"o", "r", "i", "g", "e", "n", "_", "a", "r", "c", "h", "i", "v", "o">>, df.file_name),
        <<"o", "r", "i", "g", "e", "n", "_", "c", "a", "n", "a", "l">>, _infer_channel_from_filename(df.file_name))

RECURSIVE ConcatRows(_)
ConcatRows(frames) ==
    IF frames = <<>> THEN <<>> ELSE Head(frames).rows \o ConcatRows(Tail(frames))

HasDuplicates(s) == \E i, j \in 1..Len(s) : i < j /\ s[i] = s[j]

\* pd.concat(unified_frames, ignore_index=True): frames whose column indexes are
\* equal are stacked; otherwise the columns are aligned, which pandas refuses
\* (InvalidIndexError) when an index holds a repeated label
Raised == [columns |-> <<>>, rows |-> <<>>, error |-> TRUE]

pd_concat(frames) ==
    With(frames, LAMBDA fs :
        IF \A i \in 1..Len(fs) : fs[i].columns = fs[1].columns
        THEN [columns |-> fs[1].columns, rows |-> ConcatRows(fs), error |-> FALSE]
        ELSE Raised)

\* ---------------------------------------------------- unify_sources: inputs
\* file names by position in the list
FileNameOf == <<<<"i", "g", "_", "s", "h", "o", "p", ".", "c", "s", "v">>, <<"v", "e", "n", "t", "a", "s", "_", "m", "e", "l", "i", ".", "c", "s", "v">>, <<"d", "a", "t", "o", "s", ".", "c", "s", "v">>, <<"s", "t", "o", "c", "k", ".", "c", "s", "v">>>>

\* the columns a file may hold (raw header, dtype of its values)
RawColumns ==
    {[name |-> <<"X">>, dtype |-> "object"],
     [name |-> <<"x">>, dtype |-> "object"],
     [name |-> <<"x", "_", "2">>, dtype |-> "object"],
     [name |-> <<"T", "o", "t", "a", "l">>, dtype |-> "numeric"],
     [name |-> <<"m", "o", "n", "t", "o">>, dtype |-> "numeric"],
     [name |-> <<"t", "s">>, dtype |-> "datetime"]}

\* ------------------------------------------------- unify_sources: the machine

\* the caller appends one more (file_name, DataFrame) pair
AddFile ==
    /\ u_pc = "input"
    /\ Len(named_dfs) < MaxFiles
    /\ \E n \in 1..MaxRowsU :
          named_dfs' = Append(named_dfs,
              [file_name |-> FileNameOf[Len(named_dfs) + 1], columns |-> <<>>, nrows |-> n])
    /\ UNCHANGED <<u_pc, hasSK, per_source_maps, all_cols, result, rest_unify>>

\* the last DataFrame of the list gets one more column, with a header of its own
AddColumn ==
    /\ u_pc = "input"
    /\ named_dfs # <<>>
    /\ LET k == Len(named_dfs) IN
       /\ Len(named_dfs[k].columns) < MaxCols
       /\ \E col \in RawColumns :
             /\ \A i \in 1..Len(named_dfs[k].columns) : named_dfs[k].columns[i].name # col.name
             /\ named_dfs' = [named_dfs EXCEPT ![k].columns = Append(@, col)]
    /\ UNCHANGED <<u_pc, hasSK, per_source_maps, all_cols, result, rest_unify>>

\* unify_sources(named_dfs), whole: step 1 (per_source_maps, all_cols), step 2
\* (final_order), step 3 (one frame per file) and step 4 (pd.concat)
UnifiedFrames(final) ==
    With(final, LAMBDA order : [f \in 1..Len(named_dfs) |-> unified_frame(f, named_dfs[f], per_source_maps'[f], order)])

UnifySources ==
    /\ u_pc = "input"
    /\ IF named_dfs = <<>>
       THEN /\ u_pc' = "raised"
            /\ UNCHANGED <<per_source_maps, all_cols, result>>
       ELSE /\ per_source_maps' = [f \in 1..Len(named_dfs) |-> col_map(named_dfs[f], hasSK)]
            /\ all_cols' = UNION {Range(per_source_maps'[f]) : f \in 1..Len(named_dfs)}
            /\ result' = pd_concat(UnifiedFrames(final_order(all_cols')))
            /\ u_pc' = IF result'.error THEN "raised" ELSE "done"
    /\ UNCHANGED <<hasSK, named_dfs, rest_unify>>

NextUnify == AddFile \/ AddColumn \/ UnifySources


\* ------------------------------------------------------------------
\*  pipeline.py: _attach_ml_envios_to_ml_ventas
\* ------------------------------------------------------------------
\* a missing value (pd.NA / NaN); a text cell is a sequence of characters
NAtext == <<"<NA>">>
NoCol == <<"<None>">>

_NULL_STRINGS ==
    {<<>>, <<"n", "a", "n">>, <<"N", "a", "N">>, <<"n", "o", "n", "e">>, <<"N", "o", "n", "e">>, <<"n", "u", "l", "l">>, <<"N", "U", "L", "L">>, <<"n", "i", "l">>, <<"N", "I", "L">>,
     <<"<", "N", "A", ">">>, <<"<", "n", "a", ">">>}

\* _clean_text_series, on one cell: astype("string").str.strip(), null strings -> NA
_clean_text_series(v) ==
    IF v = NAtext THEN NAtext
    ELSE With(Strip(v, Whitespace), LAMBDA s :
             IF s \in _NULL_STRINGS THEN NAtext ELSE s)

\* _clean_text_series_loose, on one cell: "no informado" placeholders are NA too
_clean_text_series_loose(v) ==
    With(_clean_text_series(v), LAMBDA s :
        IF s # NAtext /\ Contains(Lower(s), <<"n", "o", " ", "i", "n", "f", "o", "r", "m", "a", "d", "o">>) THEN NAtext ELSE s)

\* str.replace(r"\.0$", "", regex=True) on one cell
DropDotZero(s) ==
    IF Len(s) >= 2 /\ SubSeq(s, Len(s) - 1, Len(s)) = <<".", "0">>
    THEN SubSeq(s, 1, Len(s) - 2) ELSE s

\* _normalize_id_series, on one cell
_normalize_id_series(v) ==
    With(_clean_text_series(v), LAMBDA s : IF s = NAtext THEN NAtext ELSE DropDotZero(s))

\* _norm_key
_norm_key(x) ==
    SubRuns(SubRuns(Lower(Strip(x, Whitespace)), Whitespace \cup {"-", "/"}, "_"), {"_"}, "_")

\* _find_actual_col(df, [cand]): the last column of df whose normalised name is
\* the normalised candidate (the dict keeps the last one), or None
_find_actual_col(columns, cand) ==
    With({i \in 1..Len(columns) : _norm_key(columns[i]) = _norm_key(cand)}, LAMBDA hits :
        IF hits = {} THEN NoCol
        ELSE columns[CHOOSE i \in hits : \A j \in hits : j <= i])

\* the columns of df that the candidates name, in the order of the candidates
RECURSIVE ResolvedCols(_, _)
ResolvedCols(columns, candidates) ==
    IF candidates = <<>> THEN <<>>
    ELSE With(_find_actual_col(columns, Head(candidates)), LAMBDA col :
             (IF col # NoCol THEN <<col>> ELSE <<>>) \o ResolvedCols(columns, Tail(candidates)))

\* out = out.fillna(_clean_text_series(df[col])) over the resolved columns, for
\* one row
RECURSIVE CoalesceRow(_, _, _)
CoalesceRow(vals, cols, acc) ==
    IF cols = <<>> \/ acc # NAtext THEN acc
    ELSE CoalesceRow(vals, Tail(cols), _clean_text_series(vals[Head(cols)]))

\* _coalesce_text_any(df, candidates), for one row of df; cols are the columns
\* the candidates resolve to
_coalesce_text_any(vals, cols) == CoalesceRow(vals, cols, NAtext)

\* _first_non_null
_first_non_null(series) ==
    With(SelectSeq(series, LAMBDA v : v # NAtext), LAMBDA s :
        IF s = <<>> THEN NAtext ELSE s[1])

id_candidates ==
    <<<<"v", "e", "n", "t", "a", "_", "i", "d">>, <<"i", "d", "_", "v", "e", "n", "t", "a">>, <<"i", "d", " ", "v", "e", "n", "t", "a">>, <<"i", "d", "_", "d", "e", "_", "v", "e", "n", "t", "a">>, <<"i", "d", "v", "e", "n", "t", "a">>, <<"i", "d">>,
      <<"i", "d", "_", "o", "r", "d", "e", "n">>, <<"o", "r", "d", "e", "r", "_", "i", "d">>>>

\* the candidate columns of each enriched field, in the order of the code
env_candidates ==
    <<
      <<<<"c", "i", "u", "d", "a", "d", "_", "e", "n", "v", "i", "o">>, <<<<"c", "i", "u", "d", "a", "d", "_", "e", "n", "v", "i", "o">>, <<"c", "i", "u", "d", "a", "d", "_", "d", "e", "s", "t", "i", "n", "o">>, <<"c", "i", "u", "d", "a", "d", "_", "d", "e", "_", "d", "e", "s", "t", "i", "n", "o">>,
                            <<"d", "e", "s", "t", "i", "n", "o", "_", "c", "i", "u", "d", "a", "d">>, <<"s", "h", "i", "p", "p", "i", "n", "g", "_", "c", "i", "t", "y">>, <<"c", "i", "t", "y">>>> >>,
      <<<<"c", "o", "m", "u", "n", "a", "_", "e", "n", "v", "i", "o">>, <<<<"c", "o", "m", "u", "n", "a", "_", "e", "n", "v", "i", "o">>, <<"c", "o", "m", "u", "n", "a", "_", "d", "e", "s", "t", "i", "n", "o">>, <<"m", "u", "n", "i", "c", "i", "p", "i", "o", "_", "d", "e", "s", "t", "i", "n", "o">>,
                            <<"m", "u", "n", "i", "c", "i", "p", "i", "o">>, <<"c", "o", "m", "u", "n", "a">>>> >>,
      <<<<"r", "e", "g", "i", "o", "n", "_", "e", "n", "v", "i", "o">>, <<<<"r", "e", "g", "i", "o", "n", "_", "e", "n", "v", "i", "o">>, <<"r", "e", "g", "i", "o", "n", "_", "d", "e", "s", "t", "i", "n", "o">>, <<"r", "e", "g", "i", "ó", "n", "_", "d", "e", "s", "t", "i", "n", "o">>,
                            <<"r", "e", "g", "i", "o", "n">>>> >>,
      <<<<"d", "i", "r", "e", "c", "c", "i", "o", "n", "_", "e", "n", "v", "i", "o">>, <<<<"d", "i", "r", "e", "c", "c", "i", "o", "n", "_", "e", "n", "v", "i", "o">>, <<"d", "i", "r", "e", "c", "c", "i", "o", "n", "_", "d", "e", "s", "t", "i", "n", "o">>,
                               <<"d", "i", "r", "e", "c", "c", "i", "ó", "n", "_", "d", "e", "s", "t", "i", "n", "o">>, <<"d", "i", "r", "e", "c", "c", "i", "o", "n">>, <<"a", "d", "d", "r", "e", "s", "s">>>> >>,
      <<<<"c", "o", "d", "i", "g", "o", "_", "p", "o", "s", "t", "a", "l">>, <<<<"c", "o", "d", "i", "g", "o", "_", "p", "o", "s", "t", "a", "l">>, <<"c", "ó", "d", "i", "g", "o", "_", "p", "o", "s", "t", "a", "l">>, <<"z", "i", "p">>, <<"p", "o", "s", "t", "a", "l", "_", "c", "o", "d", "e">>>> >>,
      <<<<"e", "s", "t", "a", "d", "o", "_", "e", "n", "v", "i", "o">>, <<<<"e", "s", "t", "a", "d", "o", "_", "e", "n", "v", "i", "o">>, <<"e", "s", "t", "a", "d", "o", "_", "d", "e", "l", "_", "e", "n", "v", "i", "o">>, <<"s", "t", "a", "t", "u", "s">>,
                            <<"s", "h", "i", "p", "m", "e", "n", "t", "_", "s", "t", "a", "t", "u", "s">>, <<"e", "s", "t", "a", "d", "o", "_", "v", "e", "n", "t", "a">>>> >>,
      <<<<"t", "r", "a", "c", "k", "i", "n", "g">>, <<<<"t", "r", "a", "c", "k", "i", "n", "g">>, <<"t", "r", "a", "c", "k", "i", "n", "g", "_", "n", "u", "m", "b", "e", "r">>, <<"n", "u", "m", "e", "r", "o", "_", "s", "e", "g", "u", "i", "m", "i", "e", "n", "t", "o">>,
                        <<"n", "u", "m", "e", "r", "o", "_", "d", "e", "_", "s", "e", "g", "u", "i", "m", "i", "e", "n", "t", "o">>, <<"n", "_", "d", "e", "_", "s", "e", "g", "u", "i", "m", "i", "e", "n", "t", "o">>, <<"n", "_", "s", "e", "g", "u", "i", "m", "i", "e", "n", "t", "o">>>> >>,
      <<<<"t", "r", "a", "n", "s", "p", "o", "r", "t", "i", "s", "t", "a">>, <<<<"t", "r", "a", "n", "s", "p", "o", "r", "t", "i", "s", "t", "a">>, <<"c", "a", "r", "r", "i", "e", "r">>, <<"s", "h", "i", "p", "p", "i", "n", "g", "_", "c", "a", "r", "r", "i", "e", "r">>,
                             <<"e", "m", "p", "r", "e", "s", "a", "_", "t", "r", "a", "n", "s", "p", "o", "r", "t", "e">>>> >>
    >>

enriched_cols == [i \in 1..Len(env_candidates) |-> env_candidates[i][1]]

VentaId == <<"v", "e", "n", "t", "a", "_", "i", "d">>
Canal == <<"c", "a", "n", "a", "l">>
EnvSuffix == <<"_", "e", "n", "v">>

\* ---- a DataFrame here: [columns: list of names, rows: list of [idx, vals]] where
\* idx is the row's index label and vals maps each column name to a cell
NoStat == -1

Stats(has, note, env_n, ven_n, matched, cov) ==
    [has_envios |-> has, note |-> note, envios_rows |-> env_n, ventas_rows |-> ven_n,
     matched_ventas |-> matched, coverage_pct |-> cov]

\* canal = _clean_text_series(df["canal"]).str.lower(), for one row
canal_of(row) ==
    With(_clean_text_series(row.vals[Canal]), LAMBDA c : IF c = NAtext THEN c ELSE Lower(c))

\* mask_env / mask_ven for one row (also of a row paired with its identifier)
RowOf(x) == IF "row" \in DOMAIN x THEN x.row ELSE x
mask_env(x) == canal_of(RowOf(x)) = <<"m", "e", "r", "c", "a", "d", "o", "_", "l", "i", "b", "r", "e", "_", "e", "n", "v", "i", "o", "s">>
mask_ven(x) == canal_of(RowOf(x)) = <<"m", "e", "r", "c", "a", "d", "o", "_", "l", "i", "b", "r", "e">>

\* the column lists a table can have
DfColumns == <<VentaId, <<"c", "i", "u", "d", "a", "d", "_", "e", "n", "v", "i", "o">>, Canal>>
ColumnLists == {DfColumns}

\* _find_actual_col over the identifier candidates, per column list
id_cols == [columns \in ColumnLists |-> ResolvedCols(columns, id_candidates)]

\* _find_actual_col over the candidates of each enriched field, per column list
env_cols ==
    [columns \in ColumnLists |->
        [k \in 1..Len(env_candidates) |-> ResolvedCols(columns, env_candidates[k][2])]]

\* ven["venta_id"] / env["venta_id"]: the normalised identifier of every row
venta_id_series(rows, columns) ==
    With(id_cols[columns], LAMBDA cols :
        [i \in 1..Len(rows) |-> _normalize_id_series(_coalesce_text_any(rows[i].vals, cols))])

\* env[<field k>] for every shipment row and every enriched field k
env_fields(env, columns) ==
    With(env_cols[columns], LAMBDA cols :
            [i \in 1..Len(env) |->
                [k \in 1..Len(env_candidates) |-> _coalesce_text_any(env[i].vals, cols[k])]])

\* the aggregation of one group
agg(series) == _first_non_null(series)

\* env.groupby("venta_id", dropna=True).agg({...: _first_non_null}): one row per
\* non-null identifier, holding each field's first non-null value in row order
env_agg(env_id, fields) ==
    [id \in Range(env_id) \ {NAtext} |->
        With(SelectSeq([i \in 1..Len(env_id) |-> i], LAMBDA i : env_id[i] = id), LAMBDA grp :
            [k \in 1..Len(env_candidates) |-> agg([j \in 1..Len(grp) |-> fields[grp[j]][k]])])]

\* columns of ven after ven["venta_id"] = ... and the left merge: the enriched
\* fields ven lacks arrive under their own name, the others as "<col>_env" and
\* are dropped after the coalesce
new_columns(columns) ==
    (IF VentaId \in Range(columns) THEN <<>> ELSE <<VentaId>>)
    \o SelectSeq(enriched_cols, LAMBDA c : c \notin Range(columns))

\* faulty variant: the shipment value always wins
merged_value_env_wins(own, has_col, from_env) == from_env

\* the coalesce of one enriched field of one sales row: own is the row's value
\* (when ven has the column), from_env the value merged from env_agg
merged_value(own, has_col, from_env) ==
    IF has_col
    THEN With(_clean_text_series_loose(own), LAMBDA base :
             IF base # NAtext THEN base ELSE _clean_text_series(from_env))
    ELSE from_env

EnrichedIndex(c) == IndexOf(enriched_cols, c, 1)

\* the row of ven_m for sales row r with identifier vid: ven.merge(env_agg,
\* how="left", on="venta_id") and the coalesce of the enriched columns
ven_m_row(r, vid, columns, aggd) ==
    [idx |-> r.idx,
     vals |-> [c \in Range(columns) \cup Range(new_columns(columns)) |->
        IF c = VentaId THEN vid
        ELSE IF EnrichedIndex(c) # 0
             THEN merged_value(IF c \in Range(columns) THEN r.vals[c] ELSE NAtext,
                               c \in Range(columns),
                               IF vid \in DOMAIN aggd
                               THEN aggd[vid][EnrichedIndex(c)] ELSE NAtext)
             ELSE r.vals[c]]]

\* a row of `others` in pd.concat([others, ven_m]): the columns it lacks are null
padded_row(r, columns) ==
    [idx |-> r.idx,
     vals |-> [c \in Range(columns) \cup Range(new_columns(columns)) |->
                  IF c \in Range(columns) THEN r.vals[c] ELSE NAtext]]

\* any_field for one row of ven_m
any_field(row) ==
    \E k \in 1..Len(enriched_cols) :
        enriched_cols[k] \in DOMAIN row.vals /\ row.vals[enriched_cols[k]] # NAtext

\* round(matched / max(1, len(ven_m)) * 100.0, 2), in hundredths of a percent
coverage_pct(matched, n) ==
    With(IF n >= 1 THEN n ELSE 1, LAMBDA d : (2 * matched * 10000 + d) \div (2 * d))

NoteOnlyEnvios == "Se subieron envios pero no ventas; se dejan filas de envios intactas."
NoteNoVentaId == "No se pudo mapear venta_id; se eliminaron filas de envios para no contaminar el dashboard."

\* faulty variant: the shipment rows stay in the output
drop_env_keep(rows) == rows

\* df.loc[~mask_env]
drop_env(rows) == SelectSeq(rows, LAMBDA r : ~mask_env(r))

\* faulty variant: the merge is done without the groupby, so a sales row comes out once
\* per shipment row that carries its identifier
merge_output_no_groupby(d, all_id, aggd) ==
    With(drop_env([i \in 1..Len(d.rows) |-> [row |-> d.rows[i], vid |-> all_id[i]]]),
         LAMBDA kept :
            [columns |-> d.columns \o new_columns(d.columns),
             rows |-> [i \in 1..Len(kept) |->
                         IF mask_ven(kept[i])
                         THEN ven_m_row(kept[i].row, kept[i].vid, d.columns, aggd)
                         ELSE padded_row(kept[i].row, d.columns)]
                      \o [i \in 1..Cardinality({j \in 1..Len(d.rows) :
                                /\ mask_env(d.rows[j]) /\ all_id[j] # NAtext
                                /\ \E k \in 1..j - 1 : mask_env(d.rows[k]) /\ all_id[k] = all_id[j]
                                /\ \E k \in 1..Len(d.rows) : mask_ven(d.rows[k]) /\ all_id[k] = all_id[j]})
                           |-> padded_row(d.rows[1], d.columns)]])

\* branch 3: others = df.loc[~(mask_env | mask_ven)], ven_m, and
\* out = pd.concat([others, ven_m], axis=0).sort_index()
merge_output(d, all_id, aggd) ==
    With(drop_env([i \in 1..Len(d.rows) |-> [row |-> d.rows[i], vid |-> all_id[i]]]),
         LAMBDA kept :
            [columns |-> d.columns \o new_columns(d.columns),
             rows |-> [i \in 1..Len(kept) |->
                         IF mask_ven(kept[i])
                         THEN ven_m_row(kept[i].row, kept[i].vid, d.columns, aggd)
                         ELSE padded_row(kept[i].row, d.columns)]])

\* matched = int(any_field.sum())
matched_of(tbl) ==
    Cardinality({i \in 1..Len(tbl.rows) : mask_ven(tbl.rows[i]) /\ any_field(tbl.rows[i])})

\* faulty variant: the unresolved branch returns the table as it came
unresolved_output_keep(d) == d

\* branch 2: out = df.loc[~mask_env]
unresolved_output(d) == [columns |-> d.columns, rows |-> drop_env(d.rows)]

\* the branches of _attach_ml_envios_to_ml_ventas once the masks and the
\* identifiers (all_id[i], for row i of df) are known
AttachFrom(d, is_env, is_ven, all_id) ==
    IF \A i \in 1..Len(d.rows) : ~is_ven[i]
    THEN [df |-> d,
          stats |-> Stats(\E i \in 1..Len(d.rows) : is_env[i], NoteOnlyEnvios,
                          NoStat, NoStat, NoStat, NoStat)]
    ELSE IF \A i \in 1..Len(d.rows) : ~is_env[i]
    THEN [df |-> d, stats |-> Stats(FALSE, "", NoStat, NoStat, NoStat, NoStat)]
    ELSE IF (\A i \in 1..Len(d.rows) : is_ven[i] => all_id[i] = NAtext)
            \/ (\A i \in 1..Len(d.rows) : is_env[i] => all_id[i] = NAtext)
    THEN [df |-> unresolved_output(d),
          stats |-> Stats(TRUE, NoteNoVentaId, NoStat, NoStat, NoStat, NoStat)]
    ELSE With(SelectSeq([i \in 1..Len(d.rows) |-> i], LAMBDA i : is_env[i]), LAMBDA e :
         With(env_agg([j \in 1..Len(e) |-> all_id[e[j]]],
                      env_fields([j \in 1..Len(e) |-> d.rows[e[j]]], d.columns)), LAMBDA aggd :
         With(merge_output(d, all_id, aggd), LAMBDA o :
         With(matched_of(o), LAMBDA matched :
             [df |-> o,
              stats |-> Stats(TRUE, "", Len(e),
                              Cardinality({i \in 1..Len(d.rows) : is_ven[i]}), matched,
                              coverage_pct(matched, Cardinality({i \in 1..Len(d.rows) : is_ven[i]})))]))))

\* _attach_ml_envios_to_ml_ventas(df): {"df": ..., "stats": ...}
_attach_ml_envios_to_ml_ventas(d) ==
    IF d.rows = <<>> \/ d.columns = <<>> \/ Canal \notin Range(d.columns)
    THEN [df |-> d, stats |-> Stats(FALSE, "", NoStat, NoStat, NoStat, NoStat)]
    ELSE With([i \in 1..Len(d.rows) |-> mask_env(d.rows[i])], LAMBDA is_env :
         With([i \in 1..Len(d.rows) |-> mask_ven(d.rows[i])], LAMBDA is_ven :
         With(venta_id_series(d.rows, d.columns), LAMBDA all_id :
             AttachFrom(d, is_env, is_ven, all_id))))

\* ------------------------------------------------ reconciliation: inputs
CiudadEnvio == <<"c", "i", "u", "d", "a", "d", "_", "e", "n", "v", "i", "o">>

SalesIds == {NAtext, <<"7">>, <<"8">>}
EnvioIds == {<<"n", "a", "n">>, <<" ", "7", ".", "0">>, <<"8">>}
SalesCities == {NAtext, <<"N", "o", " ", "i", "n", "f", "o", "r", "m", "a", "d", "o">>, <<" ", "C", "u", "s", "c", "o">>}
EnvioCities == {NAtext, <<"L", "i", "m", "a">>, <<"P", "i", "s", "c", "o">>}

InputRows ==
    {[venta_id |-> i, ciudad_envio |-> c, canal |-> <<"m", "e", "r", "c", "a", "d", "o", "_", "l", "i", "b", "r", "e">>] :
        i \in SalesIds, c \in SalesCities}
    \cup {[venta_id |-> i, ciudad_envio |-> c, canal |-> <<"m", "e", "r", "c", "a", "d", "o", "_", "l", "i", "b", "r", "e", "_", "e", "n", "v", "i", "o", "s">>] :
        i \in EnvioIds, c \in EnvioCities}
    \cup {[venta_id |-> <<"8">>, ciudad_envio |-> <<"L", "i", "m", "a">>, canal |-> <<"s", "h", "o", "p", "i", "f", "y">>]}

RowVals(x) ==
    [c \in Range(DfColumns) |->
        IF c = VentaId THEN x.venta_id ELSE IF c = CiudadEnvio THEN x.ciudad_envio ELSE x.canal]

\* ----------------------------------------------- reconciliation: the machine
\* nothing returned yet
NoAttach ==
    [df |-> [columns |-> <<>>, rows |-> <<>>],
     stats |-> Stats(FALSE, "", NoStat, NoStat, NoStat, NoStat)]


\* pd.concat(dfs, ignore_index=True) upstream: one more row, indexed by position
AddRow ==
    /\ r_pc = "input"
    /\ Len(df_raw_all.rows) < MaxRowsR
    /\ \E x \in InputRows :
          df_raw_all' = [df_raw_all EXCEPT !.rows = Append(@, [idx |-> Len(df_raw_all.rows) + 1, vals |-> RowVals(x)])]
    /\ UNCHANGED <<r_pc, attach, rest_recon>>

\* attach = _attach_ml_envios_to_ml_ventas(df_raw_all)
Attach ==
    /\ r_pc = "input"
    /\ attach' = _attach_ml_envios_to_ml_ventas(df_raw_all)
    /\ r_pc' = "done"
    /\ UNCHANGED <<df_raw_all, rest_recon>>

NextRecon == AddRow \/ Attach

\* ------------------------------------------------------------------
\*  semantics.py: infer_semantics (roles and confidence of the Schema)
\* ------------------------------------------------------------------
\* Scores and confidences are in 1/10000 (0.45 is 4500); ratios and name
\* similarities are in hundredths.  A column is described by its normalised name,
\* the name similarities the embedding / TF-IDF model returns for it, and how many
\* of its values pass each per-value test of the detectors.

RoleOrder ==
    <<"fecha", "metrica_monetaria", "metrica_numerica", "bool", "id", "geo_lat", "geo_lon",
      "categorica">>

w_name == 45
w_val == 45
w_cons == 10

\* mean of a boolean series, in hundredths (0 for an empty one is handled by callers)
Ratio(k, total) == (k * 100) \div total

\* _is_date_series: ok >= max(4, ceil(len(samp) * 0.6)), samp the non-null values
_is_date_series(v) ==
    /\ v.nonnull > 0
    /\ v.date_ok >= (IF 4 >= (v.nonnull * 6 + 9) \div 10 THEN 4 ELSE (v.nonnull * 6 + 9) \div 10)

\* _is_money_values: mean > 0.2
_is_money_values(v) == v.nonnull > 0 /\ v.money * 10 > v.nonnull * 2

\* _looks_bool_values: mean > 0.9
_looks_bool_values(v) == v.nonnull > 0 /\ v.bool * 10 > v.nonnull * 9

\* _series_num_ratio
_series_num_ratio(v) == IF v.nonnull = 0 THEN 0 ELSE Ratio(v.numeric, v.nonnull)

\* _is_percent_series: mean > 0.5
_is_percent_series(v) == v.nonnull > 0 /\ v.pct * 2 > v.nonnull

\* _geo_ratio: the share of the float-parseable values that lie in the range
_geo_ratio(v, kind) ==
    IF v.numeric = 0 THEN 0
    ELSE IF kind = "lat" THEN Ratio(v.lat, v.numeric) ELSE Ratio(v.lon, v.numeric)

\* _looks_code_series: ratio > 0.6
_looks_code_series(v) == v.nonnull > 0 /\ v.code * 10 > v.nonnull * 6

Min(a, b) == IF a <= b THEN a ELSE b
Max(a, b) == IF a >= b THEN a ELSE b
Flag(b) == IF b THEN 1 ELSE 0

\* the candidate scores of one column, in the order of the dict `scores`
Scores(col, n) ==
    LET name == Lower(col.name)
        v == col.values
        num_ratio == _series_num_ratio(v)
    IN [fecha |-> w_name * col.sims.fecha + w_val * 100 * Flag(_is_date_series(v)),
        metrica_monetaria |->
            w_name * col.sims.metrica_monetaria + w_val * 100 * Flag(_is_money_values(v))
            + w_cons * Min(100, num_ratio + 25 * Flag(_is_percent_series(v))),
        metrica_numerica |-> w_name * col.sims.metrica_numerica + w_val * num_ratio,
        bool |-> w_name * col.sims.bool + w_val * 100 * Flag(_looks_bool_values(v)),
        id |-> 2500 * Flag(Contains(name, <<"i", "d">>))
               + 6000 * Flag(v.nunique * 100 >= n * 98)
               + 2000 * Flag(_looks_code_series(v)),
        geo_lat |-> w_name * 100 * Flag(Contains(name, <<"l", "a", "t">>)) + w_val * _geo_ratio(v, "lat"),
        geo_lon |-> w_name * 100 * Flag(Contains(name, <<"l", "o", "n">>) \/ Contains(name, <<"l", "n", "g">>)
                                        \/ Contains(name, <<"l", "o", "n", "g">>))
                    + w_val * _geo_ratio(v, "lon"),
        categorica |-> col.sims.categorica * w_name]

\* max(scores.items(), key=lambda kv: kv[1]): the first role with the greatest score
BestRole(scores) ==
    RoleOrder[CHOOSE i \in 1..Len(RoleOrder) :
        /\ \A j \in 1..Len(RoleOrder) : scores[RoleOrder[j]] <= scores[RoleOrder[i]]
        /\ \A j \in 1..(i - 1) : scores[RoleOrder[j]] < scores[RoleOrder[i]]]

IsGeo(role) == role \in {"geo_lat", "geo_lon"}

\* the role after the "normalización de decisión": an id that is not unique enough
\* is re-evaluated
DecidedRole(best_role, scores, v, n) ==
    IF best_role = "id" /\ v.nunique * 10 < n * 8
    THEN (IF scores.metrica_numerica > scores.categorica THEN "metrica_numerica" ELSE "categorica")
    ELSE best_role

\* confs[col]: the raw score for a geo role, else the score (raised by 0.1 for a
\* numeric role that sdtypes calls float / int) clamped to [0.1, 1.0]
Confidence(best_role, role, best_score, base_type) ==
    IF IsGeo(best_role) THEN best_score
    ELSE LET s == IF (Contains(base_type, <<"f", "l", "o", "a", "t">>) \/ Contains(base_type, <<"i", "n", "t">>))
                     /\ role = "metrica_numerica"
                  THEN Min(10000, best_score + 1000) ELSE best_score
         IN Min(10000, Max(1000, s))

\* the role a lone geo column is degraded to
DemotedRole(v) == IF _series_num_ratio(v) > 70 THEN "metrica_numerica" ELSE "categorica"

\* the "si hay lat & lon marcadas" step: roles after the pairing rule; geo_lat and
\* geo_lon are the positions of the last column scored as each, 0 for None
PairGeo(rs, cols, lat, lon) ==
    IF lat # 0 /\ lon # 0
    THEN [c \in 1..Len(rs) |-> IF c = lat THEN "geo_lat" ELSE IF c = lon THEN "geo_lon" ELSE rs[c]]
    ELSE IF lat # 0 \/ lon # 0
    THEN LET g == IF lat # 0 THEN lat ELSE lon
         IN IF IsGeo(rs[g])
            THEN [c \in 1..Len(rs) |-> IF c = g THEN DemotedRole(cols[g].values) ELSE rs[c]]
            ELSE rs
    ELSE rs

\* ------------------------------------------------ infer_semantics: inputs
NoSims ==
    [fecha |-> 0, metrica_monetaria |-> 0, metrica_numerica |-> 0, bool |-> 0, id |-> 0,
     categorica |-> 0, geo |-> 0]

\* normalised column names with the similarities of _name_role_similarity
ColumnNames ==
    {[name |-> <<"l", "a", "t">>, sims |-> NoSims],
     [name |-> <<"l", "a", "t", "_", "2">>, sims |-> NoSims],
     [name |-> <<"l", "n", "g">>, sims |-> NoSims],
     [name |-> <<"x", "y", "z">>, sims |-> NoSims],
     [name |-> <<"m", "o", "n", "t", "o">>, sims |-> [NoSims EXCEPT !.metrica_monetaria = 60]]}

Values(nonnull, nunique, numeric, lat, lon, date_ok, money, bool, pct, code, base_type) ==
    [nonnull |-> nonnull, nunique |-> nunique, numeric |-> numeric, lat |-> lat, lon |-> lon,
     date_ok |-> date_ok, money |-> money, bool |-> bool, pct |-> pct, code |-> code,
     base_type |-> base_type]

Unknown == <<"u", "n", "k", "n", "o", "w", "n">>

\* the value profiles a column of a table of TableRows rows may have
ColumnValues ==
    {\* every value null
     Values(0, 1, 0, 0, 0, 0, 0, 0, 0, 0, Unknown),
     \* free text with three distinct values
     Values(TableRows, 3, 0, 0, 0, 0, 0, 0, 0, 0, Unknown),
     \* distinct coordinates within [-90, 90]
     Values(TableRows, TableRows, TableRows, TableRows, TableRows, 0, 0, 0, 0, TableRows,
            <<"f", "l", "o", "a", "t", "6", "4">>),
     \* distinct coordinates within (90, 180]
     Values(TableRows, TableRows, TableRows, 0, TableRows, 0, 0, 0, 0, TableRows, <<"f", "l", "o", "a", "t", "6", "4">>),
     \* mostly free text; of 5 numbers one lies within [-90, 90]
     Values(TableRows, 4, 5, 1, 1, 0, 0, 0, 0, 5, Unknown),
     \* amounts with a currency symbol, repeated
     Values(TableRows, 10, TableRows, 0, 0, 0, TableRows, 0, 0, 0, Unknown),
     \* distinct ISO dates ("2024-01-05"): every value parses as a date and
     \* matches the code pattern, none as a number
     Values(TableRows, TableRows, 0, 0, 0, TableRows, 0, 0, 0, TableRows, Unknown),
     \* the same with ten distinct dates
     Values(TableRows, 10, 0, 0, 0, TableRows, 0, 0, 0, TableRows, Unknown)}

\* the loop "for col in df.columns" over the columns cols[i..], from the state acc
RECURSIVE ScoreFrom(_, _, _)
ScoreFrom(cols, i, acc) ==
    IF i > Len(cols) THEN acc
    ELSE LET col == cols[i]
             scores == Scores(col, TableRows)
             best_role == BestRole(scores)
             role == DecidedRole(best_role, scores, col.values, TableRows)
         IN With([roles |-> Append(acc.roles, role),
                  confs |-> Append(acc.confs,
                                   Confidence(best_role, role, scores[best_role],
                                              col.values.base_type)),
                  geo_lat |-> IF best_role = "geo_lat" THEN i ELSE acc.geo_lat,
                  geo_lon |-> IF best_role = "geo_lon" THEN i ELSE acc.geo_lon],
                 LAMBDA next : ScoreFrom(cols, i + 1, next))

\* infer_semantics as a function of the table: the roles and confidences of the Schema
infer_semantics(cols) ==
    With(ScoreFrom(cols, 1, [roles |-> <<>>, confs |-> <<>>, geo_lat |-> 0, geo_lon |-> 0]),
         LAMBDA s : [roles |-> PairGeo(s.roles, cols, s.geo_lat, s.geo_lon), confs |-> s.confs])

\* ----------------------------------------------- infer_semantics: the machine

\* one pass of "for col in df.columns" over the next column of df
ScoreColumn ==
    /\ s_pc = "scoring"
    /\ Len(df_cols) < MaxColsS
    /\ \E nm \in ColumnNames : \E v \in ColumnValues :
          /\ \A c \in 1..Len(df_cols) : df_cols[c].name # nm.name
          /\ LET col == [name |-> nm.name, sims |-> nm.sims, values |-> v]
                 scores == Scores(col, TableRows)
                 best_role == BestRole(scores)
                 role == DecidedRole(best_role, scores, v, TableRows)
             IN /\ df_cols' = Append(df_cols, col)
                /\ roles' = Append(roles, role)
                /\ confs' = Append(confs, Confidence(best_role, role, scores[best_role],
                                                     v.base_type))
                /\ geo_lat' = IF best_role = "geo_lat" THEN Len(df_cols) + 1 ELSE geo_lat
                /\ geo_lon' = IF best_role = "geo_lon" THEN Len(df_cols) + 1 ELSE geo_lon
    /\ UNCHANGED <<s_pc, rest_sem>>

\* the pairing rule after the loop, and the Schema is returned
Finalize ==
    /\ s_pc = "scoring"
    /\ roles' = PairGeo(roles, df_cols, geo_lat, geo_lon)
    /\ s_pc' = "done"
    /\ UNCHANGED <<df_cols, confs, geo_lat, geo_lon, rest_sem>>

NextSem == ScoreColumn \/ Finalize

\* ------------------------------------------------------------------
\*  multisource.py: _guess_unified_name with the lazily loaded
\*  Sentence-Transformers model (_get_st_model), called by several threads
\* ------------------------------------------------------------------
CallerIds == 1..Callers

\* the headers resolved; none shares a 3/4-gram with the vocabulary unless it is
\* a vocabulary phrase, so _tfidf_best_match above is exact for them
\* st is what the encoder finds for the header once model and canonical
\* embeddings are there, (canonical name, cosine in hundredths), the same at every
\* call: 100 for "total", itself a canonical sentence
GuessHeaders ==
    {[name |-> <<"A", "c", "h", "e", "t", "e", "u", "r">>, dtype |-> "object", st |-> <<"cliente", 60>>],
     [name |-> <<"t", "s">>, dtype |-> "datetime", st |-> <<"fecha", 30>>],
     [name |-> <<"T", "o", "t", "a", "l">>, dtype |-> "numeric", st |-> <<"monto", 100>>]}

\* _st_best_match after _get_st_model returned `model`
StMatch(text, model, emb, answer) ==
    IF _normalize_text(text) = <<>> THEN <<None, 0>>
    ELSE IF model = None \/ emb = None THEN <<None, 0>>
    ELSE answer

\* _guess_unified_name from the slug on, with the two matches known
GuessWith(col, sk, m2) ==
    LET slug == _slug_header(col.name)
        m1 == _tfidf_best_match(slug, sk)
        m == IF m2[2] > m1[2] THEN m2 ELSE m1
    IN GuessFrom(slug, col.dtype, m[1], m[2])

\* a caller enters _guess_unified_name: a canonical slug returns at once, an empty
\* text never asks for the model
GuessCall(c) ==
    /\ g_pc[c] = "idle"
    /\ LET slug == _slug_header(g_col.name)
       IN IF slug \in _CANONICAL_FIELDS \/ _normalize_text(slug) = <<>>
          THEN /\ g_res' = [g_res EXCEPT ![c] = GuessWith(g_col, hasSK, <<None, 0>>)]
               /\ g_pc' = [g_pc EXCEPT ![c] = "done"]
          ELSE /\ g_pc' = [g_pc EXCEPT ![c] = "get"]
               /\ UNCHANGED g_res
    /\ UNCHANGED <<g_col, hasST, st_model, st_canonical_emb, g_model, rest_guess>>

\* _get_st_model up to the test "if _st_model is None"
GetStModel(c) ==
    /\ g_pc[c] = "get"
    /\ IF ~hasST THEN /\ g_model' = [g_model EXCEPT ![c] = None]
                      /\ g_pc' = [g_pc EXCEPT ![c] = "match"]
       ELSE IF st_model = None THEN /\ g_pc' = [g_pc EXCEPT ![c] = "load"]
                                    /\ UNCHANGED g_model
       ELSE /\ g_model' = [g_model EXCEPT ![c] = st_model]
            /\ g_pc' = [g_pc EXCEPT ![c] = "match"]
    /\ UNCHANGED <<g_col, hasST, st_model, st_canonical_emb, g_res, rest_guess>>

\* _st_model = SentenceTransformer(...): the model is bound, or the constructor
\* raises and the except clause resets both globals
LoadModel(c) ==
    /\ g_pc[c] = "load"
    /\ \/ /\ st_model' = "model"
          /\ g_pc' = [g_pc EXCEPT ![c] = "encode"]
          /\ UNCHANGED <<st_canonical_emb, g_model>>
       \/ /\ st_model' = None
          /\ st_canonical_emb' = None
          /\ g_model' = [g_model EXCEPT ![c] = None]
          /\ g_pc' = [g_pc EXCEPT ![c] = "match"]
    /\ UNCHANGED <<g_col, hasST, g_res, rest_guess>>

\* _st_canonical_emb = _st_model.encode(...), then "return _st_model"
EncodeCanonical(c) ==
    /\ g_pc[c] = "encode"
    /\ \/ /\ st_canonical_emb' = "emb"
          /\ g_model' = [g_model EXCEPT ![c] = st_model]
          /\ UNCHANGED st_model
       \/ /\ st_model' = None
          /\ st_canonical_emb' = None
          /\ g_model' = [g_model EXCEPT ![c] = None]
    /\ g_pc' = [g_pc EXCEPT ![c] = "match"]
    /\ UNCHANGED <<g_col, hasST, g_res, rest_guess>>

\* the rest of _st_best_match, _best_canonical and _guess_unified_name
FinishGuess(c) ==
    /\ g_pc[c] = "match"
    /\ g_res' = [g_res EXCEPT ![c] =
                    GuessWith(g_col, hasSK,
                              StMatch(_slug_header(g_col.name), g_model[c], st_canonical_emb,
                                      g_col.st))]
    /\ g_pc' = [g_pc EXCEPT ![c] = "done"]
    /\ UNCHANGED <<g_col, hasST, st_model, st_canonical_emb, g_model, rest_guess>>

NextGuess ==
    \E c \in CallerIds :
        GuessCall(c) \/ GetStModel(c) \/ LoadModel(c) \/ EncodeCanonical(c) \/ FinishGuess(c)

\* ------------------------------------------------------------------
\*  cleaning.py: _fix_structural_errors
\* ------------------------------------------------------------------
\* np.nan in a cell: str() of it is "nan", which is all this function looks at
NaN == <<"n", "a", "n">>

DigitChars == {"0", "1", "2", "3", "4", "5", "6", "7", "8", "9"}

AllDigits(s) == \A i \in 1..Len(s) : s[i] \in DigitChars

\* _is_na
_is_na(val) == Lower(Strip(val, Whitespace)) \in {<<>>, <<"n", "a", "n">>, <<"n", "o", "n", "e">>, <<"n", "a", "t">>, <<"<", "n", "a", ">">>}

\* re.match(r'^\d{1,4}[-/]\d{1,2}[-/]\d{2,4}', s)
MatchesDatePrefix(s) ==
    \E a \in 1..4 : \E b \in 1..2 :
        /\ Len(s) >= a + 1 + b + 1 + 2
        /\ AllDigits(SubSeq(s, 1, a))
        /\ s[a + 1] \in {"-", "/"}
        /\ AllDigits(SubSeq(s, a + 2, a + 1 + b))
        /\ s[a + b + 2] \in {"-", "/"}
        /\ AllDigits(SubSeq(s, a + b + 3, a + b + 4))

\* _is_valid_date
_is_valid_date(val) == ~_is_na(val) /\ MatchesDatePrefix(Strip(val, Whitespace))

\* float(s) succeeds, for the texts the cells hold: digits after an optional sign
FloatParses(s) ==
    LET body == IF s # <<>> /\ Head(s) \in {"-", "+"} THEN Tail(s) ELSE s
    IN body # <<>> /\ AllDigits(body)

\* faulty variant of is_bad: a null anchor value is judged like any other
is_bad_null_judged(val_anchor, anchor_type) ==
    IF anchor_type = "date" THEN ~_is_valid_date(val_anchor)
    ELSE LET s_val == Strip(SelectSeq(val_anchor, LAMBDA ch : ch \notin {"$", ",", "."}),
                            Whitespace)
         IN s_val # <<>> /\ ~FloatParses(s_val)

\* the test of fix_row_start on the anchor value of a row
is_bad(val_anchor, anchor_type) ==
    IF _is_na(val_anchor) THEN FALSE
    ELSE IF anchor_type = "date" THEN ~_is_valid_date(val_anchor)
    ELSE LET s_val == Strip(SelectSeq(val_anchor, LAMBDA ch : ch \notin {"$", ",", "."}),
                            Whitespace)
         IN s_val # <<>> /\ ~FloatParses(s_val)

\* the first column whose lower-cased name holds one of the keys, 0 for None
FirstColWith(cols, keys) ==
    LET hits == {i \in 1..Len(cols) : \E k \in keys : Contains(Lower(cols[i]), k)}
    IN IF hits = {} THEN 0 ELSE CHOOSE i \in hits : \A j \in hits : i <= j

\* anchor_col (as a position) and anchor_type
Anchor(cols) ==
    LET d == FirstColWith(cols, {<<"d", "a", "t", "e", "o", "f", "h", "i", "r", "e">>, <<"f", "e", "c", "h", "a", "_", "c", "o", "n", "t", "r", "a", "t", "o">>})
    IN IF d # 0 THEN [col |-> d, type |-> "date"]
       ELSE [col |-> FirstColWith(cols, {<<"s", "a", "l", "a", "r", "y">>, <<"s", "u", "e", "l", "d", "o">>}), type |-> "number"]

\* faulty variant of fix_row_start: the first two cells are joined but the
\* second one stays where it was
fix_row_start_no_shift(row, ncols, anchor) ==
    IF is_bad(row[anchor.col], anchor.type)
    THEN LET new_vals == <<row[1] \o <<",", " ">> \o row[2]>> \o SubSeq(row, 2, Len(row))
                         \o <<NaN>>
         IN IF Len(new_vals) > ncols THEN SubSeq(new_vals, 1, ncols) ELSE new_vals
    ELSE row

\* fix_row_start: a bad row gets its first two cells joined, the others moved
\* one place to the left and NaN at the end
fix_row_start(row, ncols, anchor) ==
    IF is_bad(row[anchor.col], anchor.type)
    THEN LET new_vals == <<row[1] \o <<",", " ">> \o row[2]>> \o SubSeq(row, 3, Len(row))
                         \o <<NaN>>
         IN IF Len(new_vals) > ncols THEN SubSeq(new_vals, 1, ncols) ELSE new_vals
    ELSE row

\* the rows of the anchor column that are no valid date, nulls included
BadDates(rows, a) == {i \in 1..Len(rows) : ~_is_valid_date(rows[i][a])}

\* "Solo aplicamos si detectamos error sistémico": date anchor and bad_ratio > 0.1
Systemic(rows, anchor) ==
    /\ anchor.type = "date"
    /\ Len(rows) > 0
    /\ Cardinality(BadDates(rows, anchor.col)) * 10 > Len(rows)

\* _fix_structural_errors: (out, fixes); fixes holds the anchor of each message
_fix_structural_errors(d) ==
    IF Len(d.columns) < 3 THEN [df |-> d, fixes |-> <<>>]
    ELSE LET anchor == Anchor(d.columns)
         IN IF anchor.col = 0 THEN [df |-> d, fixes |-> <<>>]
            ELSE IF Systemic(d.rows, anchor)
            THEN [df |-> [columns |-> d.columns,
                          rows |-> [i \in 1..Len(d.rows) |->
                                       fix_row_start(d.rows[i], Len(d.columns), anchor)]],
                  fixes |-> <<d.columns[anchor.col]>>]
            ELSE [df |-> d, fixes |-> <<>>]

\* ------------------------------------------ _fix_structural_errors: inputs
FixColumns ==
    {<<<<"E", "m", "p", "l", "o", "y", "e", "e", "_", "N", "a", "m", "e">>, <<"D", "a", "t", "e", "o", "f", "H", "i", "r", "e">>, <<"D", "e", "p", "t">>>>,
     <<<<"E", "m", "p", "l", "o", "y", "e", "e", "_", "N", "a", "m", "e">>, <<"S", "a", "l", "a", "r", "y">>, <<"D", "e", "p", "t">>>>,
     <<<<"E", "m", "p", "l", "o", "y", "e", "e", "_", "N", "a", "m", "e">>, <<"S", "t", "a", "r", "t", "e", "d">>, <<"D", "e", "p", "t">>>>,
     <<<<"E", "m", "p", "l", "o", "y", "e", "e", "_", "N", "a", "m", "e">>, <<"D", "a", "t", "e", "o", "f", "H", "i", "r", "e">>>>,
     <<<<"D", "a", "t", "e", "o", "f", "H", "i", "r", "e">>, <<"E", "m", "p", "l", "o", "y", "e", "e", "_", "N", "a", "m", "e">>, <<"D", "e", "p", "t">>>>,
     <<<<"E", "m", "p", "l", "o", "y", "e", "e", "_", "N", "a", "m", "e">>, <<"D", "e", "p", "t">>, <<"D", "a", "t", "e", "o", "f", "H", "i", "r", "e">>>>}

\* rows in good shape, rows shifted by a comma in the name, rows with free text
\* or a null in the second column
FixRows ==
    {<<<<"A", "n", "a">>, <<"2", "0", "2", "0", "-", "0", "1", "-", "0", "5">>, <<"H", "R">>>>,
     <<<<"S", "m", "i", "t", "h">>, <<"J", "o", "h", "n">>, <<"2", "0", "2", "0", "-", "0", "1", "-", "0", "5">>>>,
     <<<<"A", "n", "a">>, <<"p", "e", "n", "d", "i", "n", "g">>, <<"H", "R">>>>,
     <<<<"A", "n", "a">>, NaN, <<"H", "R">>>>,
     <<<<"A", "n", "a">>, <<"$", "1", ",", "2", "0", "0">>, <<"H", "R">>>>,
     <<<<"S", "m", "i", "t", "h">>, <<"J", "o", "h", "n">>, <<"1", "2", "0", "0">>>>}

NoFix == [df |-> [columns |-> <<>>, rows |-> <<>>], fixes |-> <<>>]

\* one more row of the table handed to the cleaning step
AddRowFix ==
    /\ f_pc = "input"
    /\ Len(f_df.rows) < MaxRowsF
    /\ \E r \in FixRows :
          f_df' = [f_df EXCEPT !.rows = Append(@, SubSeq(r, 1, Len(f_df.columns)))]
    /\ UNCHANGED <<f_pc, f_out, rest_fix>>

FixStructuralErrors ==
    /\ f_pc = "input"
    /\ f_out' = _fix_structural_errors(f_df)
    /\ f_pc' = "done"
    /\ UNCHANGED <<f_df, rest_fix>>

NextFix == AddRowFix \/ FixStructuralErrors

\* ------------------------------------------------------------------
\*  datasources.py: _unique_headers, read_dataframe
\* ------------------------------------------------------------------
\* datasources._slug_header
ds_slug_header(raw) ==
    LET s1 == SubRuns(Strip(raw, Whitespace), Whitespace, " ")
        s2 == Replace(Lower(s1), " ", "_")
        s3 == NonSlugToUnderscore(s2)
    IN Strip(SubRuns(s3, {"_"}, "_"), {"_"})

\* the name a header gets: the base for its first occurrence, base_n for the n-th
numbered(base, n) == IF n = 1 THEN base ELSE base \o <<"_">> \o Digits(n)

\* the loop of _unique_headers over cols, from (out, seen, empty_count)
RECURSIVE UniqueFrom(_, _, _, _)
UniqueFrom(cols, out, seen, empty_count) ==
    IF cols = <<>> THEN out
    ELSE LET slug == ds_slug_header(Head(cols))
             ec == IF slug = <<>> THEN empty_count + 1 ELSE empty_count
             base == IF slug = <<>> THEN <<"c", "o", "l", "_">> \o Digits(ec) ELSE slug
             n == (IF base \in DOMAIN seen THEN seen[base] ELSE 0) + 1
         IN UniqueFrom(Tail(cols), Append(out, numbered(base, n)),
                       [k \in DOMAIN seen \cup {base} |-> IF k = base THEN n ELSE seen[k]], ec)

\* _unique_headers
_unique_headers(cols) == UniqueFrom(cols, <<>>, <<>>, 0)

ALLOWED_EXTENSIONS == {<<".", "c", "s", "v">>, <<".", "x", "l", "s", "x">>, <<".", "x", "l", "s">>, <<".", "o", "d", "s">>}

\* Path.suffix of a file name
Suffix(name) ==
    LET dots == {i \in 2..Len(name) : name[i] = "."}
    IN IF dots = {} THEN <<>>
       ELSE SubSeq(name, CHOOSE i \in dots : \A j \in dots : j <= i, Len(name))

\* read_dataframe raises: extension not allowed, or the reader fails on the content
ReadFails(entry) == Lower(Suffix(entry.name)) \notin ALLOWED_EXTENSIONS \/ entry.content # "table"

\* read_dataframe of a readable file: cell (name, c, r) is the value of column c
\* in row r of that file
read_dataframe(entry) ==
    [columns |-> _unique_headers(entry.headers),
     rows |-> [r \in 1..entry.nrows |-> [c \in 1..Len(entry.headers) |-> <<entry.name, c, r>>]]]

\* the header rows pandas hands over: it has already told exact duplicates
\* apart ("a", "a.1") and named empty cells ("Unnamed: 0")
RawHeaders ==
    {<<"a">>, <<"A">>, <<"a", "_", "2">>, <<"a", ".", "1">>, <<"#", "#", "#">>, <<"?", "?">>, <<"c", "o", "l", "_", "1">>, <<"U", "n", "n", "a", "m", "e", "d", ":", " ", "0">>}

AddHeader ==
    /\ h_pc = "input"
    /\ Len(h_cols) < MaxHeaders
    /\ \E h \in RawHeaders : h \notin Range(h_cols) /\ h_cols' = Append(h_cols, h)
    /\ UNCHANGED <<h_pc, h_out, rest_hdr>>

\* read_dataframe sets df.columns
UniqueHeaders ==
    /\ h_pc = "input"
    /\ h_out' = _unique_headers(h_cols)
    /\ h_pc' = "done"
    /\ UNCHANGED <<h_cols, rest_hdr>>

NextHdr == AddHeader \/ UniqueHeaders

\* ------------------------------------------------------------------
\*  pipeline.py: _merge_multichannel_files
\* ------------------------------------------------------------------
LowerLetters == {LowerOf[k] : k \in DOMAIN LowerOf}

\* re.search(r"(^|[^a-z])tok([^a-z]|$)", name)
HasToken(name, tok) ==
    \E i \in 1..(Len(name) - Len(tok) + 1) :
        /\ SubSeq(name, i, i + Len(tok) - 1) = tok
        /\ (i = 1 \/ name[i - 1] \notin LowerLetters)
        /\ (i + Len(tok) - 1 = Len(name) \/ name[i + Len(tok)] \notin LowerLetters)

\* _infer_channel_from_name, for file names without accented letters
_infer_channel_from_name(fname) ==
    LET name == Lower(fname)
        is_ml == Contains(name, <<"m", "e", "r", "c", "a", "d", "o">>) \/ HasToken(name, <<"m", "l">>)
    IN IF is_ml /\ (Contains(name, <<"e", "n", "v", "i", "o">>) \/ Contains(name, <<"s", "h", "i", "p", "p", "i", "n", "g">>)
                    \/ Contains(name, <<"s", "h", "i", "p", "m", "e", "n", "t">>))
       THEN <<"m", "e", "r", "c", "a", "d", "o", "_", "l", "i", "b", "r", "e", "_", "e", "n", "v", "i", "o", "s">>
       ELSE IF Contains(name, <<"s", "h", "o", "p", "i", "f", "y">>) THEN <<"s", "h", "o", "p", "i", "f", "y">>
       ELSE IF is_ml THEN <<"m", "e", "r", "c", "a", "d", "o", "_", "l", "i", "b", "r", "e">>
       ELSE IF Contains(name, <<"i", "n", "s", "t", "a", "g", "r", "a", "m">>) \/ HasToken(name, <<"i", "g">>) THEN <<"i", "n", "s", "t", "a", "g", "r", "a", "m", "_", "s", "h", "o", "p">>
       ELSE <<"d", "e", "s", "c", "o", "n", "o", "c", "i", "d", "o">>

\* _looks_like_ml_envios_df
_looks_like_ml_envios_df(columns) ==
    LET cols == {_norm_key(columns[i]) : i \in 1..Len(columns)}
        any(keys) == IF keys \cap cols # {} THEN 1 ELSE 0
        has_venta_id ==
            any({<<"i", "d", "_", "v", "e", "n", "t", "a">>, <<"v", "e", "n", "t", "a", "_", "i", "d">>, <<"i", "d", "_", "o", "r", "d", "e", "n">>, <<"o", "r", "d", "e", "r", "_", "i", "d">>, <<"i", "d", "v", "e", "n", "t", "a">>}) = 1
        score ==
            any({<<"t", "r", "a", "c", "k", "i", "n", "g">>, <<"t", "r", "a", "c", "k", "i", "n", "g", "_", "n", "u", "m", "b", "e", "r">>, <<"n", "u", "m", "e", "r", "o", "_", "s", "e", "g", "u", "i", "m", "i", "e", "n", "t", "o">>,
                 <<"n", "u", "m", "e", "r", "o", "_", "d", "e", "_", "s", "e", "g", "u", "i", "m", "i", "e", "n", "t", "o">>, <<"n", "_", "s", "e", "g", "u", "i", "m", "i", "e", "n", "t", "o">>, <<"n", "_", "d", "e", "_", "s", "e", "g", "u", "i", "m", "i", "e", "n", "t", "o">>})
            + any({<<"d", "i", "r", "e", "c", "c", "i", "o", "n", "_", "e", "n", "v", "i", "o">>, <<"d", "i", "r", "e", "c", "c", "i", "o", "n", "_", "d", "e", "s", "t", "i", "n", "o">>, <<"d", "i", "r", "e", "c", "c", "i", "o", "n">>, <<"a", "d", "d", "r", "e", "s", "s">>,
                   <<"s", "h", "i", "p", "p", "i", "n", "g", "_", "a", "d", "d", "r", "e", "s", "s">>})
            + any({<<"c", "i", "u", "d", "a", "d", "_", "e", "n", "v", "i", "o">>, <<"c", "i", "u", "d", "a", "d", "_", "d", "e", "s", "t", "i", "n", "o">>, <<"s", "h", "i", "p", "p", "i", "n", "g", "_", "c", "i", "t", "y">>, <<"c", "o", "m", "u", "n", "a", "_", "e", "n", "v", "i", "o">>,
                   <<"c", "o", "m", "u", "n", "a", "_", "d", "e", "s", "t", "i", "n", "o">>, <<"r", "e", "g", "i", "o", "n", "_", "e", "n", "v", "i", "o">>, <<"r", "e", "g", "i", "o", "n", "_", "d", "e", "s", "t", "i", "n", "o">>})
            + any({<<"t", "r", "a", "n", "s", "p", "o", "r", "t", "i", "s", "t", "a">>, <<"c", "a", "r", "r", "i", "e", "r">>, <<"s", "h", "i", "p", "p", "i", "n", "g", "_", "c", "a", "r", "r", "i", "e", "r">>, <<"e", "m", "p", "r", "e", "s", "a", "_", "t", "r", "a", "n", "s", "p", "o", "r", "t", "e">>})
            + any({<<"f", "e", "c", "h", "a", "_", "d", "e", "s", "p", "a", "c", "h", "o">>, <<"f", "e", "c", "h", "a", "_", "e", "n", "v", "i", "o">>, <<"f", "e", "c", "h", "a", "_", "e", "n", "t", "r", "e", "g", "a">>,
                   <<"f", "e", "c", "h", "a", "_", "e", "n", "t", "r", "e", "g", "a", "_", "e", "s", "t", "i", "m", "a", "d", "a">>, <<"e", "s", "t", "i", "m", "a", "t", "e", "d", "_", "d", "e", "l", "i", "v", "e", "r", "y">>, <<"d", "e", "l", "i", "v", "e", "r", "y", "_", "d", "a", "t", "e">>})
            + any({<<"c", "o", "d", "i", "g", "o", "_", "p", "o", "s", "t", "a", "l">>, <<"z", "i", "p">>, <<"p", "o", "s", "t", "a", "l">>})
    IN has_venta_id /\ score >= 2

\* the channel a file is tagged with
canal_for(fname, columns) ==
    LET canal == _infer_channel_from_name(fname)
    IN IF canal = <<"m", "e", "r", "c", "a", "d", "o", "_", "l", "i", "b", "r", "e">> /\ _looks_like_ml_envios_df(columns)
       THEN <<"m", "e", "r", "c", "a", "d", "o", "_", "l", "i", "b", "r", "e", "_", "e", "n", "v", "i", "o", "s">> ELSE canal

\* the body of the try block for a file that reads
tagged_frame(entry) ==
    LET df_i == read_dataframe(entry)
    IN SetColumn(SetColumn(df_i, <<"c", "a", "n", "a", "l">>, canal_for(entry.name, df_i.columns)),
                 <<"_", "_", "s", "o", "u", "r", "c", "e", "_", "f", "i", "l", "e">>, entry.name)

\* labels of the frames in order of first appearance
RECURSIVE UnionColumns(_, _)
UnionColumns(frames, acc) ==
    IF frames = <<>> THEN acc
    ELSE UnionColumns(Tail(frames),
                      acc \o SelectSeq(Head(frames).columns, LAMBDA c : c \notin Range(acc)))

\* the rows of frame f under the labels cols, NaN where f has no such column
Aligned(f, cols) ==
    [r \in 1..Len(f.rows) |->
        [c \in 1..Len(cols) |->
            IF cols[c] \in Range(f.columns)
            THEN f.rows[r][CHOOSE i \in 1..Len(f.columns) : f.columns[i] = cols[c]]
            ELSE NAcell]]

RECURSIVE AlignedRows(_, _)
AlignedRows(frames, cols) ==
    IF frames = <<>> THEN <<>>
    ELSE Aligned(Head(frames), cols) \o AlignedRows(Tail(frames), cols)

\* pd.concat(dfs, ignore_index=True, sort=False): equal column indexes are
\* stacked; unequal ones are aligned on their union, which pandas refuses
\* (InvalidIndexError) when a frame has a repeated label
pd_concat_sort_false(frames) ==
    IF \A i \in 1..Len(frames) : frames[i].columns = frames[1].columns
    THEN [columns |-> frames[1].columns, rows |-> ConcatRows(frames), error |-> FALSE]
    ELSE IF \E i \in 1..Len(frames) : HasDuplicates(frames[i].columns) THEN Raised
    ELSE LET cols == UnionColumns(frames, <<>>)
         IN [columns |-> cols, rows |-> AlignedRows(frames, cols), error |-> FALSE]

\* what input_dir may hold
DirEntries ==
    {[name |-> <<"a", "_", "m", "l", ".", "c", "s", "v">>, kind |-> "file", content |-> "table",
      headers |-> <<<<"i", "d", "_", "v", "e", "n", "t", "a">>, <<"t", "r", "a", "c", "k", "i", "n", "g">>, <<"C", "i", "u", "d", "a", "d", " ", "E", "n", "v", "i", "o">>>>, nrows |-> 1],
     [name |-> <<"b", "_", "s", "h", "o", "p", "i", "f", "y", ".", "c", "s", "v">>, kind |-> "file", content |-> "table",
      headers |-> <<<<"a">>, <<"A">>, <<"a", "_", "2">>>>, nrows |-> 1],
     [name |-> <<"c", "_", "i", "g", ".", "x", "l", "s", "x">>, kind |-> "file", content |-> "table",
      headers |-> <<<<"i", "d">>, <<"c", "a", "n", "a", "l">>>>, nrows |-> 2],
     [name |-> <<"d", "_", "m", "l", "_", "e", "n", "v", "i", "o", "s", ".", "c", "s", "v">>, kind |-> "file", content |-> "corrupt",
      headers |-> <<>>, nrows |-> 0],
     [name |-> <<"e", "_", "n", "o", "t", "e", "s", ".", "t", "x", "t">>, kind |-> "file", content |-> "table",
      headers |-> <<<<"i", "d">>>>, nrows |-> 1],
     [name |-> <<"f", "_", "o", "l", "d">>, kind |-> "dir", content |-> "none", headers |-> <<>>, nrows |-> 0],
     [name |-> <<"g", "_", "i", "g", ".", "c", "s", "v">>, kind |-> "file", content |-> "table",
      headers |-> <<<<"i", "d">>, <<"c", "a", "n", "a", "l">>>>, nrows |-> 0]}

\* sorted(input_dir.iterdir())
RECURSIVE SortedEntries(_)
SortedEntries(S) ==
    IF S = {} THEN <<>>
    ELSE LET m == CHOOSE x \in S : \A y \in S \ {x} : StrLess(x.name, y.name)
         IN <<m>> \o SortedEntries(S \ {m})

NoMerge == [columns |-> <<>>, rows |-> <<>>, error |-> FALSE]

\* "if not input_dir.exists(): raise"
MergeStart ==
    /\ m_pc = "start"
    /\ IF m_dir.exists THEN m_pc' = "loop" /\ UNCHANGED m_out
       ELSE m_pc' = "done" /\ m_out' = Raised
    /\ UNCHANGED <<m_dir, m_i, dfs, rest_merge>>

\* one pass of "for p in sorted(input_dir.iterdir())"
ReadEntry ==
    /\ m_pc = "loop"
    /\ m_i <= Len(m_dir.entries)
    /\ LET p == m_dir.entries[m_i]
       IN dfs' = IF p.kind # "file" \/ ReadFails(p) THEN dfs ELSE Append(dfs, tagged_frame(p))
    /\ m_i' = m_i + 1
    /\ UNCHANGED <<m_pc, m_dir, m_out, rest_merge>>

\* after the loop: raise with nothing read, else concat
MergeConcat ==
    /\ m_pc = "loop"
    /\ m_i > Len(m_dir.entries)
    /\ m_out' = IF dfs = <<>> THEN Raised ELSE pd_concat_sort_false(dfs)
    /\ m_pc' = "done"
    /\ UNCHANGED <<m_dir, m_i, dfs, rest_merge>>

NextMerge == MergeStart \/ ReadEntry \/ MergeConcat

\* ------------------------------------------------------------------
\*  api/process.py, pipeline.py: runs, their phases and their status
\* ------------------------------------------------------------------
\* ids a client may name: the ids of the runs that can be created and one more
RunIds == 1..(MaxRuns + 1)

\* {} as a status: no key is set
EmptyDict ==
    [id |-> 0, filename |-> "", status |-> "", error |-> "", progress |-> 0,
     current_step |-> "", steps |-> {}, metrics |-> {}, inferred_types |-> {},
     artifacts |-> {}]

\* runs/{id}/status.json does not exist
NoStatusFile == [exists |-> FALSE, data |-> EmptyDict, updated_at |-> 0]

\* what an uploaded file with an allowed extension may be: a table the
\* pipeline handles, bytes the reader cannot parse, or a table on which
\* cleaning or the final report raises
UploadKinds == {"valid", "text_only", "corrupt", "bad_clean", "bad_report"}

\* the table in an uploaded file: a free-text column, a column of plain
\* numbers and a column of dates; a "text_only" file has no column of numbers
UploadTable(kind) ==
    LET text == [name |-> <<"x", "y", "z">>, sims |-> NoSims,
                 values |-> Values(TableRows, 3, 0, 0, 0, 0, 0, 0, 0, 0, Unknown)]
        number == [name |-> <<"l", "a", "t">>, sims |-> NoSims,
                   values |-> Values(TableRows, TableRows, TableRows, TableRows, TableRows,
                                     0, 0, 0, 0, TableRows, <<"f", "l", "o", "a", "t", "6", "4">>)]
        date == [name |-> <<"d", "i", "a">>, sims |-> NoSims,
                 values |-> Values(TableRows, 10, 0, 0, 0, TableRows, 0, 0, 0, TableRows, Unknown)]
    IN IF kind = "text_only" THEN <<text, date>> ELSE <<text, number, date>>

\* dates.normalize_dates_in_df: the text columns of which at least half of the
\* non-null values parse as dates
normalize_dates_in_df(table) ==
    {table[c].name : c \in {c \in 1..Len(table) :
        /\ table[c].values.numeric < table[c].values.nonnull
        /\ table[c].values.date_ok * 2 >= table[c].values.nonnull}}

\* status["metrics"]["inferred_types"] of run_ingestion_phase: the roles of the
\* Schema, with "fecha" for every column normalize_dates_in_df converted
inferred_types(table) ==
    With(normalize_dates_in_df(table), LAMBDA inferred_dates :
    With(infer_semantics(table).roles, LAMBDA schema_roles :
        {<<table[c].name, IF table[c].name \in inferred_dates THEN "fecha" ELSE schema_roles[c]>> :
            c \in 1..Len(table)}))

\* the table of every kind of upload and the types phase 1 records for it
KindTable == [kind \in UploadKinds |-> UploadTable(kind)]

KindTypes == [kind \in UploadKinds |-> inferred_types(KindTable[kind])]

\* roles[col] = role on a dict held as a set of (column, role) pairs
SetRole(types, col, role) == {p \in types : p[1] # col} \cup {<<col, role>>}

\* _pick_primary_metric on the cleaned table: none of the preferred names is
\* a column of it, so the first column of numbers that is not banned, else
\* "total_venta_clp"
_pick_primary_metric(table) ==
    LET numeric == {c \in 1..Len(table) :
                        /\ table[c].values.nonnull > 0
                        /\ table[c].values.numeric = table[c].values.nonnull
                        /\ table[c].name \notin {<<"p", "r", "e", "c", "i", "o", "_", "u", "n", "i", "t", "a", "r", "i", "o", "_", "u", "n", "i", "f", "i", "c", "a", "d", "o">>, <<"p", "r", "e", "c", "i", "o", "_", "u", "n", "i", "t", "a", "r", "i", "o">>,
                                                  <<"p", "r", "i", "c", "e">>, <<"u", "n", "i", "t", "_", "p", "r", "i", "c", "e">>}}
    IN IF numeric = {} THEN <<"t", "o", "t", "a", "l", "_", "v", "e", "n", "t", "a", "_", "c", "l", "p">>
       ELSE table[CHOOSE c \in numeric : \A d \in numeric : c <= d].name

\* run_dashboard_phase: `roles` is the dict held in status["metrics"], so the
\* roles forced for the dashboard are set in the status itself
dashboard_roles(types, table) ==
    LET columns == {table[c].name : c \in 1..Len(table)}
        primary_metric == _pick_primary_metric(table)
        force(ts, col, role) == IF col \in columns THEN SetRole(ts, col, role) ELSE ts
    IN IF types = {} THEN types
       ELSE force(force(force(force(force(types,
                <<"f", "e", "c", "h", "a", "_", "v", "e", "n", "t", "a">>, "fecha"),
                <<"v", "e", "n", "t", "a", "_", "i", "d">>, "id"),
                primary_metric, "monto"),
                <<"p", "r", "e", "c", "i", "o", "_", "u", "n", "i", "t", "a", "r", "i", "o", "_", "u", "n", "i", "f", "i", "c", "a", "d", "o">>, "precio_unitario"),
                <<"c", "a", "n", "t", "i", "d", "a", "d", "_", "u", "n", "i", "f", "i", "c", "a", "d", "a">>, "cantidad")

\* process_repo_fs.read_status: read_json(...) or {}; read_json gives {} for a missing file
read_status(proc_id) ==
    IF status_json[proc_id].exists THEN status_json[proc_id].data ELSE EmptyDict

\* _write: clamps progress; the write stamps updated_at
_write(status) ==
    [status EXCEPT !.progress = IF @ < 0 THEN 0 ELSE IF @ > 100 THEN 100 ELSE @]

\* faulty variant: one status file shared by every run
write_status_shared(files, proc_id, status) ==
    [i \in DOMAIN files |->
        [exists |-> TRUE, data |-> _write(status), updated_at |-> files[i].updated_at + 1]]

write_status(files, proc_id, status) ==
    [files EXCEPT ![proc_id] =
        [exists |-> TRUE, data |-> _write(status), updated_at |-> @.updated_at + 1]]

\* _ensure_steps: the names of the steps that are "ok"
_ensure_steps(status) ==
    IF status.steps = {} THEN [status EXCEPT !.steps = {"Subir archivo"}] ELSE status

_mark_step(status, step_name) == [status EXCEPT !.steps = @ \cup {step_name}]

append_history(h, proc_id, events) == [h EXCEPT ![proc_id] = @ \o events]

\* the status create_initial_process writes
initial_status(proc_id) ==
    [id |-> proc_id, filename |-> "upload", status |-> "queued", error |-> "",
     progress |-> 0, current_step |-> "Subir archivo", steps |-> {"Subir archivo"},
     metrics |-> {}, inferred_types |-> {}, artifacts |-> {}]

\* the first lines of both phase functions, before the try block
phase_entry(proc_id) ==
    LET status == read_status(proc_id)
    IN _ensure_steps(IF status = EmptyDict THEN [EmptyDict EXCEPT !.id = proc_id] ELSE status)

\* _handle_error: the status it writes
_handle_error(status, e) == [status EXCEPT !.status = "failed", !.error = e]

\* what a stage of a phase does to the status the task holds, for an upload of
\* the given kind and the artifact files the run has: it raises with `error`,
\* or it ends with `status`, which it has written if `writes`, having appended
\* `events` after its stage_end and created the files `written`
Raise(stage, e) ==
    [raises |-> TRUE, stage |-> stage, error |-> e, status |-> EmptyDict, writes |-> TRUE,
     next_pc |-> "done", events |-> <<>>, written |-> {}]

Pass(stage, status, next_pc, events, written) ==
    [raises |-> FALSE, stage |-> stage, error |-> "", status |-> status, writes |-> TRUE,
     next_pc |-> next_pc, events |-> events, written |-> written]

stage_outcome(pc, status, kind, files) ==
    CASE pc = "Ingesta" ->
            IF kind = "corrupt" THEN Raise("Ingesta", "read_dataframe")
            ELSE Pass("Ingesta",
                      [status EXCEPT
                          !.artifacts = @ \cup {"dataset_original.csv", "input_original"},
                          !.metrics = @ \cup {"rows", "cols"},
                          !.progress = 20],
                      "InferenciaTipos", <<>>, {"dataset_original.csv", "input_original"})
      [] pc = "InferenciaTipos" ->
            Pass("InferenciaTipos",
                 [status EXCEPT !.metrics = @ \cup {"inferred_types"},
                                !.inferred_types = KindTypes[kind],
                                !.progress = 30],
                 "Perfilado", <<>>, {})
      [] pc = "Perfilado" ->
            Pass("Perfilado",
                 [_mark_step(status, "Perfilado") EXCEPT
                     !.artifacts = @ \cup {"reporte_perfilado.html"},
                     !.progress = 50,
                     !.current_step = "Limpieza"],
                 "Limpieza", <<>>, {"reporte_perfilado.html"})
      [] pc = "Limpieza" ->
            IF kind = "bad_clean" THEN Raise("Limpieza", "clean_dataframe")
            ELSE Pass("Limpieza",
                      [_mark_step(status, "Limpieza") EXCEPT
                          !.artifacts = @ \cup {"dataset_limpio.csv"},
                          !.metrics = @ \cup {"rows_clean", "clean_summary", "outliers_count"},
                          !.progress = 60,
                          !.status = "waiting_dashboard",
                          !.current_step = "Listo para Dashboard"],
                      "done", <<"phase_1_completed">>, {"dataset_limpio.csv"})
      [] pc = "load" ->
            IF {"dataset_unificado.csv", "dataset_limpio.csv"} \cap files = {}
            THEN Raise("", "No existe CSV limpio")
            ELSE [Pass("",
                       [status EXCEPT
                           !.metrics = @ \cup {"dashboard_primary_metric"},
                           !.inferred_types = dashboard_roles(@, KindTable[kind])],
                       "Dashboard", <<>>, {})
                  EXCEPT !.writes = FALSE]
      [] pc = "Dashboard" ->
            Pass("Dashboard",
                 [_mark_step(status, "Dashboard") EXCEPT
                     !.artifacts = @ \cup {"auto_dashboard_spec.json", "dashboard.html"},
                     !.progress = 90,
                     !.current_step = "Reporte"],
                 "Reporte", <<>>, {"auto_dashboard_spec.json", "dashboard.html"})
      [] pc = "Reporte" ->
            IF kind = "bad_report" THEN Raise("Reporte", "build_full_report")
            ELSE Pass("Reporte",
                      [_mark_step(status, "Reporte") EXCEPT
                          !.artifacts = @ \cup {"detalle_limpieza.html", "reporte_integrado.html"},
                          !.status = "completed",
                          !.current_step = "Finalizado",
                          !.progress = 100],
                      "done", <<"process_completed">>, {"detalle_limpieza.html"})

\* the events _stage appends when the with block is left; "load" runs outside any stage
stage_end(o) ==
    IF o.stage = "" THEN <<>>
    ELSE <<"stage_end " \o o.stage \o (IF o.raises THEN " failed" ELSE " ok")>>

\* a task runs the stage it is at: on a raise _stage logs the failure and the
\* except clause calls _handle_error; otherwise the stage's writes take place
StageStep(w) ==
    LET t == tasks[w]
        o == stage_outcome(t.pc, t.status, uploads[t.pid], art_files[t.pid])
    IN IF o.raises
       THEN /\ history' = append_history(history, t.pid, stage_end(o) \o <<"process_failed">>)
            /\ status_json' = write_status(status_json, t.pid, _handle_error(t.status, o.error))
            /\ tasks' = [tasks EXCEPT ![w].pc = "done",
                                      ![w].status = _handle_error(t.status, o.error)]
            /\ UNCHANGED art_files
       ELSE /\ history' = append_history(history, t.pid, stage_end(o) \o o.events)
            /\ status_json' = IF o.writes THEN write_status(status_json, t.pid, o.status)
                              ELSE status_json
            /\ tasks' = [tasks EXCEPT ![w].pc = o.next_pc, ![w].status = o.status]
            /\ art_files' = [art_files EXCEPT ![t.pid] = @ \cup o.written]

\* the status run_ingestion_phase / run_dashboard_phase writes before the try block
phase_begin(phase, entry) ==
    IF phase = 1
    THEN [entry EXCEPT !.status = "running", !.progress = 10]
    ELSE [entry EXCEPT !.status = "running", !.current_step = "Dashboard", !.progress = 70]

NextRunId == Cardinality({i \in RunIds : uploads[i] # "none"}) + 1

\* uuid4 gives an id nothing has named before
Fresh(proc_id) ==
    /\ ~status_json[proc_id].exists
    /\ \A w \in 1..Len(tasks) : tasks[w].pid # proc_id

\* POST /api/process
PostProcess ==
    \E ext_ok \in BOOLEAN, size_ok \in BOOLEAN, kind \in UploadKinds :
        IF ~ext_ok
        THEN /\ resp' = [req |-> "process", id |-> 0, code |-> 400, body |-> EmptyDict]
             /\ UNCHANGED <<status_json, history, art_files, uploads, tasks, rest_run>>
        ELSE IF ~size_ok
        THEN /\ resp' = [req |-> "process", id |-> 0, code |-> 413, body |-> EmptyDict]
             /\ UNCHANGED <<status_json, history, art_files, uploads, tasks, rest_run>>
        ELSE /\ NextRunId <= MaxRuns
             /\ Fresh(NextRunId)
             /\ Len(tasks) < MaxTasks
             /\ LET proc_id == NextRunId
                IN /\ uploads' = [uploads EXCEPT ![proc_id] = kind]
                   /\ status_json' = write_status(status_json, proc_id, initial_status(proc_id))
                   /\ history' = append_history(history, proc_id, <<"process_created">>)
                   /\ tasks' = Append(tasks, [pid |-> proc_id, phase |-> 1, pc |-> "start",
                                              status |-> EmptyDict])
                   /\ resp' = [req |-> "process", id |-> proc_id, code |-> 201,
                               body |-> [EmptyDict EXCEPT !.id = proc_id, !.status = "queued"]]
             /\ UNCHANGED <<art_files, rest_run>>

\* POST /api/process/{process_id}/dashboard
PostDashboard ==
    \E process_id \in RunIds :
        /\ Len(tasks) < MaxTasks
        /\ tasks' = Append(tasks, [pid |-> process_id, phase |-> 2, pc |-> "start",
                                   status |-> EmptyDict])
        /\ resp' = [req |-> "dashboard", id |-> process_id, code |-> 202, body |-> EmptyDict]
        /\ UNCHANGED <<status_json, history, art_files, uploads, rest_run>>

\* GET /api/status/{process_id}: the route of api/process.py is registered
\* before the one of api/status.py and answers; read_status never raises
\* FileNotFoundError
GetStatus ==
    \E process_id \in RunIds :
        /\ resp' = [req |-> "status", id |-> process_id, code |-> 200,
                    body |-> read_status(process_id)]
        /\ UNCHANGED <<status_json, history, art_files, uploads, tasks, rest_run>>

\* run_ingestion_phase / run_dashboard_phase up to the try block
PhaseStart(w) ==
    LET t == tasks[w]
        status == phase_begin(t.phase, phase_entry(t.pid))
    IN /\ t.pc = "start"
       /\ history' = append_history(history, t.pid,
                        <<IF t.phase = 1 THEN "phase_1_started" ELSE "phase_2_started">>)
       /\ status_json' = write_status(status_json, t.pid, status)
       /\ tasks' = [tasks EXCEPT ![w].pc = IF t.phase = 1 THEN "Ingesta" ELSE "load",
                                 ![w].status = status]
       /\ UNCHANGED <<art_files, uploads, resp, rest_run>>

\* with _stage(proc_id, "Ingesta"), single mode
Ingesta(w) ==
    /\ tasks[w].pc = "Ingesta"
    /\ StageStep(w)
    /\ UNCHANGED <<uploads, resp, rest_run>>

\* the stages "Fechas" and "InferenciaTipos"
InferenciaTipos(w) ==
    /\ tasks[w].pc = "InferenciaTipos"
    /\ StageStep(w)
    /\ UNCHANGED <<uploads, resp, rest_run>>

\* the stage "Perfilado" and the write of current_step "Limpieza" after it
Perfilado(w) ==
    /\ tasks[w].pc = "Perfilado"
    /\ StageStep(w)
    /\ UNCHANGED <<uploads, resp, rest_run>>

\* the stage "Limpieza", the last of run_ingestion_phase
Limpieza(w) ==
    /\ tasks[w].pc = "Limpieza"
    /\ StageStep(w)
    /\ UNCHANGED <<uploads, resp, rest_run>>

\* run_dashboard_phase: the first lines of the try block, no stage is open
load_clean(w) ==
    /\ tasks[w].pc = "load"
    /\ StageStep(w)
    /\ UNCHANGED <<uploads, resp, rest_run>>

\* the stage "Dashboard" and the write of current_step "Reporte" after it
Dashboard(w) ==
    /\ tasks[w].pc = "Dashboard"
    /\ StageStep(w)
    /\ UNCHANGED <<uploads, resp, rest_run>>

\* the stage "Reporte" and the last write of run_dashboard_phase
Reporte(w) ==
    /\ tasks[w].pc = "Reporte"
    /\ StageStep(w)
    /\ UNCHANGED <<uploads, resp, rest_run>>

\* a phase run with no other task about: the status it leaves persisted,
\* from the stage pc on
RECURSIVE run_stages(_, _, _, _, _)
run_stages(pc, status, persisted, kind, files) ==
    IF pc = "done" THEN persisted
    ELSE LET o == stage_outcome(pc, status, kind, files)
         IN IF o.raises THEN _write(_handle_error(status, o.error))
            ELSE run_stages(o.next_pc, o.status,
                            IF o.writes THEN _write(o.status) ELSE persisted,
                            kind, files \cup o.written)

\* POST /api/process of a file of the given kind, served alone
ingestion_alone(proc_id, kind) ==
    LET status == phase_begin(1, _ensure_steps(initial_status(proc_id)))
    IN run_stages("Ingesta", status, _write(status), kind, {})

\* one step of a background task
TaskStep(w) ==
    \/ PhaseStart(w)
    \/ Ingesta(w)
    \/ InferenciaTipos(w)
    \/ Perfilado(w)
    \/ Limpieza(w)
    \/ load_clean(w)
    \/ Dashboard(w)
    \/ Reporte(w)

NextRun ==
    \/ PostProcess
    \/ PostDashboard
    \/ GetStatus
    \/ \E w \in 1..MaxTasks : w <= Len(tasks) /\ TaskStep(w)

\* ------------------------------------------------------------------
\*  cleaning.py: _parse_money_value
\* ------------------------------------------------------------------
UpperChars == DOMAIN LowerOf

\* the symbols of [\$\€\£\¥] the cells of the model hold
CurrencySymbols == {"$"}

\* re.search(r"([A-Z]{3}|[\$\€\£\¥])", s): the match at position i, <<>> for none
CurrencyAt(s, i) ==
    IF i + 2 <= Len(s) /\ \A k \in i..(i + 2) : s[k] \in UpperChars
    THEN SubSeq(s, i, i + 2)
    ELSE IF s[i] \in CurrencySymbols THEN <<s[i]>> ELSE <<>>

\* curr_match.group(0) if curr_match else None (<<>> stands for None)
CurrencyOf(s) ==
    LET hits == {i \in 1..Len(s) : CurrencyAt(s, i) # <<>>}
    IN IF hits = {} THEN <<>>
       ELSE CurrencyAt(s, CHOOSE i \in hits : \A j \in hits : i <= j)

\* re.sub(r"[^\d.,-]", "", s)
MoneyDigits(s) == SelectSeq(s, LAMBDA ch : ch \in DigitChars \cup {".", ",", "-"})

\* str.count(c)
CountChar(s, c) == Cardinality({i \in 1..Len(s) : s[i] = c})

\* str.rfind(c), counted from 1; 0 for not found
RFind(s, c) ==
    LET hits == {i \in 1..Len(s) : s[i] = c}
    IN IF hits = {} THEN 0 ELSE CHOOSE i \in hits : \A j \in hits : j <= i

\* str.replace(c, "")
Remove(s, c) == SelectSeq(s, LAMBDA ch : ch # c)

\* no number: the None of the returned pair
NoValue == [ok |-> FALSE, int |-> <<>>, frac |-> <<>>, neg |-> FALSE]

\* float(s) for a text of digits, "." and "-": the number as its sign, integer
\* digits and decimals without leading and trailing zeros; NoValue for ValueError
ParseFloat(s) ==
    LET body == IF s # <<>> /\ Head(s) = "-" THEN Tail(s) ELSE s
        dot == RFind(body, ".")
        int == IF dot = 0 THEN body ELSE SubSeq(body, 1, dot - 1)
        frac == IF dot = 0 THEN <<>> ELSE SubSeq(body, dot + 1, Len(body))
    IN IF AllDigits(int) /\ AllDigits(frac) /\ int \o frac # <<>>
       THEN [ok |-> TRUE, int |-> LStrip(int, {"0"}), frac |-> RStrip(frac, {"0"}),
             neg |-> s # <<>> /\ Head(s) = "-" /\ LStrip(int, {"0"}) \o RStrip(frac, {"0"}) # <<>>]
       ELSE NoValue

\* re.match(r"^\d{1,3}(\.\d{3})+$", s)
RECURSIVE DotGroups(_)
DotGroups(s) ==
    s = <<>> \/ (Len(s) >= 4 /\ s[1] = "." /\ AllDigits(SubSeq(s, 2, 4)) /\ DotGroups(SubSeq(s, 5, Len(s))))

DotGrouped(s) ==
    \E a \in 1..3 : Len(s) > a /\ AllDigits(SubSeq(s, 1, a)) /\ DotGroups(SubSeq(s, a + 1, Len(s)))

\* the "Heuristica simple de parseo": clean_str as float() receives it
money_text(clean_str, currency) ==
    IF CountChar(clean_str, ",") > 0 /\ CountChar(clean_str, ".") > 0
    THEN IF RFind(clean_str, ",") > RFind(clean_str, ".")
         THEN Replace(Remove(clean_str, "."), ",", ".")
         ELSE Remove(clean_str, ",")
    ELSE IF CountChar(clean_str, ",") > 0
    THEN IF CountChar(clean_str, ",") > 1 THEN Remove(clean_str, ",")
         ELSE IF Len(clean_str) - (RFind(clean_str, ",") - 1) <= 3
         THEN Replace(clean_str, ",", ".")
         ELSE Remove(clean_str, ",")
    ELSE IF CountChar(clean_str, ".") > 0
    THEN IF currency \in {<<"$">>, <<"C", "L", "P">>} /\ DotGrouped(clean_str)
         THEN Remove(clean_str, ".")
         ELSE clean_str
    ELSE clean_str

\* _parse_money_value: (value, currency)
_parse_money_value(val) ==
    IF _is_na(val) THEN [value |-> NoValue, currency |-> <<>>]
    ELSE LET s == Strip(val, Whitespace)
             currency == CurrencyOf(s)
             clean_str == MoneyDigits(s)
         IN IF clean_str = <<>> THEN [value |-> NoValue, currency |-> currency]
            ELSE [value |-> ParseFloat(money_text(clean_str, currency)), currency |-> currency]

\* ---------------------------------------------- _parse_money_value: inputs
\* how a money cell begins: no currency, a symbol, a code
Currencies == {<<>>, <<"$">>, <<"U", "S", "D">>, <<"C", "L", "P">>, <<"E", "U", "R">>}

MoneyChars == {"1", "5", ".", ","}

NoMoney == [value |-> NoValue, currency |-> <<>>]

\* one more character of the cell of the money column
AddMoneyChar ==
    /\ pm_pc = "input"
    /\ Len(MoneyDigits(pm_val)) < MaxCell
    /\ \E ch \in MoneyChars : pm_val' = Append(pm_val, ch)
    /\ UNCHANGED <<pm_pc, pm_out, rest_money>>

ParseMoneyValue ==
    /\ pm_pc = "input"
    /\ pm_out' = _parse_money_value(pm_val)
    /\ pm_pc' = "done"
    /\ UNCHANGED <<pm_val, rest_money>>

NextMoney == AddMoneyChar \/ ParseMoneyValue

\* ------------------------------------------------------------------
\*  process_repo_fs.py: write_status and read_status, step by step
\* ------------------------------------------------------------------
\* the phases of one run that write its status
WriterIds == 1..MaxWriters

\* a file per open() that creates one, and the status.json the run begins with
Inodes == 1..(MaxWriters + 1)

\* the document of writer w as json.dump hands it to the file: n chunks, a
\* chunk being what one flush of the buffer writes
Doc(w, n) == [k \in 1..n |-> <<w, k>>]

\* the bytes a write past the end of a file leaves before it
Hole == <<0, 0>>

\* write(chunk) at offset off of a file with the given content
write_at(content, off, chunk) ==
    [k \in 1..(IF off + 1 > Len(content) THEN off + 1 ELSE Len(content)) |->
        IF k = off + 1 THEN chunk ELSE IF k <= Len(content) THEN content[k] ELSE Hole]

\* an inode no name and no writer refers to
FreeInode == CHOOSE i \in Inodes : a_inodes[i] = <<>> /\ i \notin {a_names.json, a_names.tmp}
                                   /\ \A w \in WriterIds : a_fd[w] # i

\* tmp.open("w"): status.tmp is created, or truncated if it is there
OpenTmp(w) ==
    /\ a_pc[w] = "idle"
    /\ \E n \in 1..MaxChunks : a_len' = [a_len EXCEPT ![w] = n]
    /\ IF a_names.tmp # 0
       THEN /\ a_inodes' = [a_inodes EXCEPT ![a_names.tmp] = <<>>]
            /\ a_fd' = [a_fd EXCEPT ![w] = a_names.tmp]
            /\ UNCHANGED a_names
       ELSE /\ a_names' = [a_names EXCEPT !.tmp = FreeInode]
            /\ a_fd' = [a_fd EXCEPT ![w] = FreeInode]
            /\ UNCHANGED a_inodes
    /\ a_off' = [a_off EXCEPT ![w] = 0]
    /\ a_pc' = [a_pc EXCEPT ![w] = "dump"]
    /\ UNCHANGED <<a_read, rest_write>>

\* json.dump(data, f): the next chunk goes to the file f refers to, at f's offset
Dump(w) ==
    /\ a_pc[w] = "dump"
    /\ a_inodes' = [a_inodes EXCEPT ![a_fd[w]] = write_at(@, a_off[w], <<w, a_off[w] + 1>>)]
    /\ a_off' = [a_off EXCEPT ![w] = @ + 1]
    /\ a_pc' = [a_pc EXCEPT ![w] = IF a_off[w] + 1 = a_len[w] THEN "replace" ELSE "dump"]
    /\ UNCHANGED <<a_names, a_fd, a_len, a_read, rest_write>>

\* tmp.replace(path): the file status.tmp names becomes status.json;
\* FileNotFoundError when there is no status.tmp
ReplaceTmp(w) ==
    /\ a_pc[w] = "replace"
    /\ IF a_names.tmp = 0
       THEN /\ a_pc' = [a_pc EXCEPT ![w] = "raised"]
            /\ UNCHANGED <<a_names, a_inodes>>
       ELSE /\ a_pc' = [a_pc EXCEPT ![w] = "done"]
            /\ a_names' = [json |-> a_names.tmp, tmp |-> 0]
            /\ a_inodes' = IF \E v \in WriterIds : a_fd[v] = a_names.json /\ a_pc[v] = "dump"
                           THEN a_inodes
                           ELSE [a_inodes EXCEPT ![a_names.json] = <<>>]
    /\ UNCHANGED <<a_fd, a_off, a_len, a_read, rest_write>>

\* read_status: json.load of status.json as it is now
ReadStatus ==
    /\ a_read' = [called |-> TRUE, content |-> a_inodes[a_names.json]]
    /\ UNCHANGED <<a_names, a_inodes, a_pc, a_fd, a_off, a_len, rest_write>>

NextWrite == ReadStatus \/ \E w \in WriterIds : OpenTmp(w) \/ Dump(w) \/ ReplaceTmp(w)

\* ------------------------------------------------------------------
\*  pipeline.py: the Limpieza stage of run_ingestion_phase, multi mode
\* ------------------------------------------------------------------
\* clean_dataframe, "Trim y replace", on one cell of an object column
trim_and_replace(v) ==
    IF v = NAtext THEN NAtext
    ELSE With(Strip(v, Whitespace), LAMBDA s :
             IF s \in {<<>>, <<"n", "a", "n">>, <<"N", "o", "n", "e">>} THEN NAtext ELSE s)

\* out.drop_duplicates(): a row equal to an earlier one in every column goes
drop_duplicates(rows) ==
    LET keep == {i \in 1..Len(rows) : \A j \in 1..(i - 1) : rows[j].vals # rows[i].vals}
        RECURSIVE Kept(_)
        Kept(i) == IF i > Len(rows) THEN <<>>
                   ELSE (IF i \in keep THEN <<rows[i]>> ELSE <<>>) \o Kept(i + 1)
    IN Kept(1)

\* clean_dataframe on the table of the model: none of its columns is a date, a
\* money or a zip column, so the cells are trimmed and duplicates dropped
clean_dataframe(d) ==
    [columns |-> d.columns,
     rows |-> drop_duplicates([i \in 1..Len(d.rows) |->
                 [idx |-> d.rows[i].idx,
                  vals |-> [c \in DOMAIN d.rows[i].vals |-> trim_and_replace(d.rows[i].vals[c])]]])]

\* _harmonize_multichannel_postclean, on the columns the model carries: the
\* rows of channel mercado_libre_envios are removed, venta_id is normalised
\* and a missing city of a mercado_libre row becomes a placeholder
_harmonize_multichannel_postclean(d) ==
    LET kept == SelectSeq(d.rows, LAMBDA r : ~mask_env(r))
    IN [columns |-> d.columns,
        rows |-> [i \in 1..Len(kept) |->
            [idx |-> kept[i].idx,
             vals |-> [c \in DOMAIN kept[i].vals |->
                 IF c = VentaId THEN _normalize_id_series(kept[i].vals[c])
                 ELSE IF c = CiudadEnvio
                 THEN With(_clean_text_series(kept[i].vals[c]), LAMBDA city :
                          IF mask_ven(kept[i]) /\ city = NAtext
                          THEN <<"N", "o", " ", "i", "n", "f", "o", "r", "m", "a", "d", "o", " ", "(", "M", "L", " ", "V", "e", "n", "t", "a", "s", ")">> ELSE city)
                 ELSE kept[i].vals[c]]]]]

\* with _stage(proc_id, "Limpieza"), mode "multi": clean_dataframe, the outlier
\* columns (no row goes), the harmonisation, df_clean.to_csv
WriteDatasetLimpio ==
    /\ l_pc = "ingesta"
    /\ r_pc = "done"
    /\ dataset_limpio' = _harmonize_multichannel_postclean(clean_dataframe(attach.df))
    /\ l_pc' = "done"
    /\ UNCHANGED <<rvars, rest_limpieza>>

NextMulti == NextRecon \/ WriteDatasetLimpio

\* ------------------------------------------------------------------
\*  specifications: one per function, the others' variables at rest
\* ------------------------------------------------------------------
IdleUnify ==
    /\ u_pc = "idle"
    /\ named_dfs = <<>>
    /\ per_source_maps = <<>>
    /\ all_cols = {}
    /\ result = [columns |-> <<>>, rows |-> <<>>, error |-> FALSE]

IdleRecon ==
    /\ r_pc = "idle"
    /\ df_raw_all = [columns |-> <<>>, rows |-> <<>>]
    /\ attach = NoAttach

IdleSem ==
    /\ s_pc = "idle"
    /\ df_cols = <<>>
    /\ roles = <<>>
    /\ confs = <<>>
    /\ geo_lat = 0
    /\ geo_lon = 0

IdleGuess ==
    /\ g_pc = [c \in CallerIds |-> "off"]
    /\ g_col = [name |-> <<>>, dtype |-> "object", st |-> <<None, 0>>]
    /\ g_model = [c \in CallerIds |-> None]
    /\ g_res = [c \in CallerIds |-> None]
    /\ hasST = FALSE
    /\ st_model = None
    /\ st_canonical_emb = None

IdleFix ==
    /\ f_pc = "idle"
    /\ f_df = [columns |-> <<>>, rows |-> <<>>]
    /\ f_out = NoFix

IdleHdr ==
    /\ h_pc = "idle"
    /\ h_cols = <<>>
    /\ h_out = <<>>

IdleMerge ==
    /\ m_pc = "idle"
    /\ m_dir = [exists |-> FALSE, entries |-> <<>>]
    /\ m_i = 1
    /\ dfs = <<>>
    /\ m_out = NoMerge

IdleRun ==
    /\ status_json = [i \in RunIds |-> NoStatusFile]
    /\ history = [i \in RunIds |-> <<>>]
    /\ art_files = [i \in RunIds |-> {}]
    /\ uploads = [i \in RunIds |-> "none"]
    /\ tasks = <<>>
    /\ resp = [req |-> "none", id |-> 0, code |-> 0, body |-> EmptyDict]

IdleMoney ==
    /\ pm_pc = "idle"
    /\ pm_val = <<>>
    /\ pm_out = NoMoney

IdleWrite ==
    /\ a_names = [json |-> 0, tmp |-> 0]
    /\ a_inodes = [i \in Inodes |-> <<>>]
    /\ a_pc = [w \in WriterIds |-> "off"]
    /\ a_fd = [w \in WriterIds |-> 0]
    /\ a_off = [w \in WriterIds |-> 0]
    /\ a_len = [w \in WriterIds |-> 0]
    /\ a_read = [called |-> FALSE, content |-> <<>>]

IdleLimpieza ==
    /\ l_pc = "idle"
    /\ dataset_limpio = [columns |-> <<>>, rows |-> <<>>]

\* unify_sources is about to be called; nothing else runs
InitUnify ==
    /\ u_pc = "input"
    /\ hasSK \in BOOLEAN
    /\ named_dfs = <<>>
    /\ per_source_maps = <<>>
    /\ all_cols = {}
    /\ result = [columns |-> <<>>, rows |-> <<>>, error |-> FALSE]
    /\ IdleRecon /\ IdleSem /\ IdleGuess /\ IdleFix /\ IdleHdr /\ IdleMerge /\ IdleRun
    /\ IdleMoney /\ IdleWrite /\ IdleLimpieza

\* _attach_ml_envios_to_ml_ventas is about to be called; nothing else runs
InitRecon ==
    /\ r_pc = "input"
    /\ df_raw_all = [columns |-> DfColumns, rows |-> <<>>]
    /\ attach = NoAttach
    /\ hasSK = FALSE
    /\ IdleUnify /\ IdleSem /\ IdleGuess /\ IdleFix /\ IdleHdr /\ IdleMerge /\ IdleRun
    /\ IdleMoney /\ IdleWrite /\ IdleLimpieza

\* infer_semantics has set up its collections; nothing else runs
InitSem ==
    /\ s_pc = "scoring"
    /\ df_cols = <<>>
    /\ roles = <<>>
    /\ confs = <<>>
    /\ geo_lat = 0
    /\ geo_lon = 0
    /\ hasSK = FALSE
    /\ IdleUnify /\ IdleRecon /\ IdleGuess /\ IdleFix /\ IdleHdr /\ IdleMerge
    /\ IdleRun /\ IdleMoney /\ IdleWrite /\ IdleLimpieza

\* the process has imported multisource; callers are about to resolve one column
InitGuess ==
    /\ g_pc = [c \in CallerIds |-> "idle"]
    /\ g_col \in GuessHeaders
    /\ g_model = [c \in CallerIds |-> None]
    /\ g_res = [c \in CallerIds |-> None]
    /\ hasST \in BOOLEAN
    /\ hasSK \in BOOLEAN
    /\ st_model = None
    /\ st_canonical_emb = None
    /\ IdleUnify /\ IdleRecon /\ IdleSem /\ IdleFix /\ IdleHdr /\ IdleMerge /\ IdleRun
    /\ IdleMoney /\ IdleWrite /\ IdleLimpieza

\* a table with its header read is about to be repaired
InitFix ==
    /\ f_pc = "input"
    /\ \E cols \in FixColumns : f_df = [columns |-> cols, rows |-> <<>>]
    /\ f_out = NoFix
    /\ hasSK = FALSE
    /\ IdleUnify /\ IdleRecon /\ IdleSem /\ IdleGuess /\ IdleHdr /\ IdleMerge
    /\ IdleRun /\ IdleMoney /\ IdleWrite /\ IdleLimpieza

\* a file has been parsed and its header row is about to be normalised
InitHdr ==
    /\ h_pc = "input"
    /\ h_cols = <<>>
    /\ h_out = <<>>
    /\ hasSK = FALSE
    /\ IdleUnify /\ IdleRecon /\ IdleSem /\ IdleGuess /\ IdleFix /\ IdleMerge
    /\ IdleRun /\ IdleMoney /\ IdleWrite /\ IdleLimpieza

\* the input directory of a run, as it is when the merge starts
InitMerge ==
    /\ m_pc = "start"
    /\ \E ex \in BOOLEAN : \E S \in SUBSET DirEntries :
          /\ (~ex => S = {})
          /\ m_dir = [exists |-> ex, entries |-> SortedEntries(S)]
    /\ m_i = 1
    /\ dfs = <<>>
    /\ m_out = NoMerge
    /\ hasSK = FALSE
    /\ IdleUnify /\ IdleRecon /\ IdleSem /\ IdleGuess /\ IdleFix /\ IdleHdr /\ IdleRun
    /\ IdleMoney /\ IdleWrite /\ IdleLimpieza

\* the server has started with an empty runs directory
InitRun ==
    /\ status_json = [i \in RunIds |-> NoStatusFile]
    /\ history = [i \in RunIds |-> <<>>]
    /\ art_files = [i \in RunIds |-> {}]
    /\ uploads = [i \in RunIds |-> "none"]
    /\ tasks = <<>>
    /\ resp = [req |-> "none", id |-> 0, code |-> 0, body |-> EmptyDict]
    /\ hasSK = FALSE
    /\ IdleUnify /\ IdleRecon /\ IdleSem /\ IdleGuess /\ IdleFix /\ IdleHdr
    /\ IdleMerge /\ IdleMoney /\ IdleWrite /\ IdleLimpieza

SpecUnify == InitUnify /\ [][NextUnify]_vars

SpecRecon == InitRecon /\ [][NextRecon]_vars

SpecSem == InitSem /\ [][NextSem]_vars

SpecGuess == InitGuess /\ [][NextGuess]_vars

SpecFix == InitFix /\ [][NextFix]_vars

SpecHdr == InitHdr /\ [][NextHdr]_vars

SpecMerge == InitMerge /\ [][NextMerge]_vars

SpecRun == InitRun /\ [][NextRun]_vars

\* a background task that has been added is run by the thread pool to its end
SpecRunFair == SpecRun /\ \A w \in 1..MaxTasks : WF_vars(w <= Len(tasks) /\ TaskStep(w))

\* a cell of a money column is about to be parsed
InitMoney ==
    /\ pm_pc = "input"
    /\ pm_val \in Currencies
    /\ pm_out = NoMoney
    /\ hasSK = FALSE
    /\ IdleUnify /\ IdleRecon /\ IdleSem /\ IdleGuess /\ IdleFix /\ IdleHdr
    /\ IdleMerge /\ IdleRun /\ IdleWrite /\ IdleLimpieza

SpecMoney == InitMoney /\ [][NextMoney]_vars

\* create_initial_process has written status.json; both phases of the run are
\* about to write it
InitWrite ==
    /\ a_names = [json |-> 1, tmp |-> 0]
    /\ a_inodes = [i \in Inodes |-> IF i = 1 THEN Doc(0, 1) ELSE <<>>]
    /\ a_pc = [w \in WriterIds |-> "idle"]
    /\ a_fd = [w \in WriterIds |-> 0]
    /\ a_off = [w \in WriterIds |-> 0]
    /\ a_len = [w \in WriterIds |-> 0]
    /\ a_read = [called |-> FALSE, content |-> <<>>]
    /\ hasSK = FALSE
    /\ IdleUnify /\ IdleRecon /\ IdleSem /\ IdleGuess /\ IdleFix /\ IdleHdr
    /\ IdleMerge /\ IdleRun /\ IdleMoney /\ IdleLimpieza

SpecWrite == InitWrite /\ [][NextWrite]_vars

\* run_ingestion_phase of a multi-file run has merged the files of input_dir
InitMulti ==
    /\ r_pc = "input"
    /\ df_raw_all = [columns |-> DfColumns, rows |-> <<>>]
    /\ attach = NoAttach
    /\ l_pc = "ingesta"
    /\ dataset_limpio = [columns |-> <<>>, rows |-> <<>>]
    /\ hasSK = FALSE
    /\ (IdleUnify /\ IdleSem /\ IdleGuess /\ IdleFix /\ IdleHdr /\ IdleMerge)
    /\ (IdleRun /\ IdleMoney /\ IdleWrite)

SpecMulti == InitMulti /\ [][NextMulti]_vars

\* ------------------------------------------------------------------
\*  properties
\* ------------------------------------------------------------------
\* rows of the result that come from file f (its origen_archivo is the file name)
RowsOfFile(f) ==
    {r \in 1..Len(result.rows) :
        \E c \in 1..Len(result.columns) :
            /\ result.columns[c] = <<"o", "r", "i", "g", "e", "n", "_", "a", "r", "c", "h", "i", "v", "o">>
            /\ result.rows[r][c] = named_dfs[f].file_name}

\* C1: within one file, no two columns receive the same final output name
C1_ColMapInjective ==
    \A f \in 1..Len(per_source_maps) : ~HasDuplicates(per_source_maps[f])

\* C7: the returned table holds every output name of every per-file column map,
\* and a file that lacks one of them has null there in all its rows
C7_SupersetPadded ==
    u_pc = "done" =>
        /\ \A f \in 1..Len(per_source_maps) :
              Range(per_source_maps[f]) \subseteq Range(result.columns)
        /\ Len(result.rows) = Len(ConcatRows(
              [f \in 1..Len(named_dfs) |-> [rows |-> [r \in 1..named_dfs[f].nrows |-> r]]]))
        /\ \A f \in 1..Len(per_source_maps) :
              /\ Cardinality(RowsOfFile(f)) = named_dfs[f].nrows
              /\ \A c \in 1..Len(result.columns) :
                    (/\ result.columns[c] \in all_cols
                     /\ result.columns[c] \notin Range(per_source_maps[f]))
                    => \A r \in RowsOfFile(f) : result.rows[r][c] = NAcell

C7_Witness ==
    /\ u_pc = "done"
    /\ Len(named_dfs) = 2
    /\ \E f \in 1..2 : \E c \in all_cols :
          c \notin Range(per_source_maps[f]) /\ RowsOfFile(f) # {}

\* ---------------------------------------------------------- reconciliation
In == df_raw_all.rows
Out == attach.df.rows
ReconDone == r_pc = "done"

\* the normalised identifier of input row i
InId(i) == venta_id_series(In, df_raw_all.columns)[i]

IsSale(i) == mask_ven(In[i])
IsEnvio(i) == mask_env(In[i])
Sales == {i \in 1..Len(In) : IsSale(i)}
Envios == {i \in 1..Len(In) : IsEnvio(i)}

\* the shipment rows that carry the identifier of sales row i
ShipmentsOf(i) == {j \in Envios : InId(i) # NAtext /\ InId(j) = InId(i)}

\* both sides present and the identifier resolved on both
Resolvable ==
    /\ Sales # {} /\ Envios # {}
    /\ \E i \in Sales : InId(i) # NAtext
    /\ \E j \in Envios : InId(j) # NAtext

\* both sides present and the identifier null on a whole side
Unresolved ==
    /\ Sales # {} /\ Envios # {}
    /\ \/ \A i \in Sales : InId(i) = NAtext
       \/ \A j \in Envios : InId(j) = NAtext

\* the cleaned city of input row j
CityOf(j) == _clean_text_series(In[j].vals[CiudadEnvio])

\* the city the shipments of sales row i provide: that of the first one, in row
\* order, that has one
ShipmentCity(i) ==
    LET withCity == {j \in ShipmentsOf(i) : CityOf(j) # NAtext}
    IN IF withCity = {} THEN NAtext
       ELSE CityOf(CHOOSE j \in withCity : \A k \in withCity : j <= k)

\* the output row that carries index label i
OutRow(i) == Out[CHOOSE k \in 1..Len(Out) : Out[k].idx = i]

\* the index labels of the output, in order
OutIdx == [k \in 1..Len(Out) |-> Out[k].idx]

\* the rows that are no shipment rows, in input order
NonEnvioIdx == SelectSeq([i \in 1..Len(In) |-> i], LAMBDA i : ~IsEnvio(i))

\* C2: the returned table has at most as many rows as the input, and its rows
\* correspond to pairwise distinct input rows (same index label, same channel)
C2_NoRowInvented ==
    ReconDone =>
        /\ Len(Out) <= Len(In)
        /\ \A k \in 1..Len(Out) :
              /\ Out[k].idx \in 1..Len(In)
              /\ Out[k].vals[Canal] = In[Out[k].idx].vals[Canal]
        /\ \A k, l \in 1..Len(Out) : k # l => Out[k].idx # Out[l].idx

C2_Witness ==
    /\ ReconDone /\ Resolvable
    /\ \E i \in Sales : Cardinality(ShipmentsOf(i)) >= 2
    /\ Len(Out) < Len(In)

C5_UnresolvedDropsEnvios ==
    (ReconDone /\ Unresolved) =>
        /\ attach.df.columns = df_raw_all.columns
        /\ Out = SelectSeq(In, LAMBDA r : ~mask_env(r))
        /\ attach.stats.has_envios
        /\ attach.stats.note = NoteNoVentaId

C5_Witness ==
    /\ ReconDone /\ Unresolved
    /\ \E i \in Sales : InId(i) # NAtext
    /\ \E i \in 1..Len(In) : ~IsSale(i) /\ ~IsEnvio(i)
    /\ Len(Out) = 2

\* C6: matched_ventas is the number of sales rows whose identifier is that of
\* some shipment row, and coverage_pct is that share of the sales rows, in 0..100
C6_CoverageCountsMatches ==
    (ReconDone /\ Resolvable) =>
        /\ attach.stats.matched_ventas = Cardinality({i \in Sales : ShipmentsOf(i) # {}})
        /\ attach.stats.coverage_pct =
              coverage_pct(Cardinality({i \in Sales : ShipmentsOf(i) # {}}), Cardinality(Sales))
        /\ attach.stats.coverage_pct \in 0..10000

\* ----------------------------------------------------------- infer_semantics
SemDone == s_pc = "done"

HasRole(r) == \E c \in 1..Len(roles) : roles[c] = r

\* C8: in the returned Schema some column is geo_lat iff some column is geo_lon
C8_GeoOnlyAsPair == SemDone => (HasRole("geo_lat") <=> HasRole("geo_lon"))

\* C9: every recorded confidence lies in [0.1, 1.0]
C9_ConfidenceInRange == \A c \in 1..Len(confs) : confs[c] \in 1000..10000

\* every candidate score of column c is zero
NoSignal(c) == \A i \in 1..Len(RoleOrder) : Scores(df_cols[c], TableRows)[RoleOrder[i]] = 0

\* C10: a column with no signal for any role is categorica with confidence >= 0.1
C10_NoSignalIsCategorical ==
    \A c \in 1..Len(roles) : NoSignal(c) => (roles[c] = "categorica" /\ confs[c] >= 1000)

\* the share of date-parseable values of column c is at least 90%
MostlyDates(c) ==
    /\ df_cols[c].values.nonnull > 0
    /\ df_cols[c].values.date_ok * 10 >= df_cols[c].values.nonnull * 9

\* C11: a column of which at least 90% of the values parse as dates has role
\* fecha with confidence >= 0.5
C11_DatesAreFecha ==
    SemDone => \A c \in 1..Len(roles) : MostlyDates(c) => (roles[c] = "fecha" /\ confs[c] >= 5000)

\* the permutations of 1..n
Perms(n) == {p \in [1..n -> 1..n] : \A i, j \in 1..n : i # j => p[i] # p[j]}

\* the Schema is what infer_semantics computes for the table
SchemaIsInferred == SemDone => roles = infer_semantics(df_cols).roles /\ confs = infer_semantics(df_cols).confs

\* C12: whatever the order of the columns, each column receives the same role
C12_RolesOrderIndependent ==
    SemDone =>
        \A p \in Perms(Len(df_cols)) :
            LET permuted == [k \in 1..Len(df_cols) |-> df_cols[p[k]]]
            IN \A k \in 1..Len(df_cols) : infer_semantics(permuted).roles[k] = roles[p[k]]

\* ------------------------------------------------------- _guess_unified_name
\* C13: every caller that resolves the column obtains the same name, whatever
\* the model's loading state was at its call
C13_ResolutionDeterministic ==
    \A c, d \in CallerIds : (g_pc[c] = "done" /\ g_pc[d] = "done") => g_res[c] = g_res[d]

\* ---------------------------------------------------- _fix_structural_errors
FixDone == f_pc = "done"

\* the anchor column a table has, whether its dates or its amounts are looked at
FixAnchor == Anchor(f_df.columns)

HasAnchor == Len(f_df.columns) >= 3 /\ FixAnchor.col # 0

\* rows whose anchor value is free text: not null and not of the anchor's type
FreeText == {i \in 1..Len(f_df.rows) : is_bad(f_df.rows[i][FixAnchor.col], FixAnchor.type)}

\* C14: with a date-like or a monetary-like anchor the repair fires exactly when
\* at least 10% of the anchor values are free text; otherwise the table is unchanged
C14_FiresFromTenPercent ==
    (FixDone /\ HasAnchor /\ f_df.rows # <<>>) =>
        IF Cardinality(FreeText) * 10 >= Len(f_df.rows)
        THEN f_out.fixes # <<>>
        ELSE f_out.fixes = <<>> /\ f_out.df = f_df

\* C15: the row count never changes, and a bad row whose shifted form has no
\* valid anchor value comes out as it went in
C15_UnfixableRowsPassThrough ==
    (FixDone /\ HasAnchor) =>
        /\ Len(f_out.df.rows) = Len(f_df.rows)
        /\ \A i \in FreeText :
              is_bad(fix_row_start(f_df.rows[i], Len(f_df.columns), FixAnchor)[FixAnchor.col],
                     FixAnchor.type)
              => f_out.df.rows[i] = f_df.rows[i]

\* ------------------------------------------------ _merge_multichannel_files
MergeDone == m_pc = "done"

\* the entries of input_dir that are files and read without error, in order
ReadOk == SelectSeq(m_dir.entries, LAMBDA p : p.kind = "file" /\ ~ReadFails(p))

\* (file, row) of every row of the files that read, in order
RECURSIVE RowsOfFiles(_)
RowsOfFiles(files) ==
    IF files = <<>> THEN <<>>
    ELSE [r \in 1..Head(files).nrows |-> <<Head(files), r>>] \o RowsOfFiles(Tail(files))

\* the value of column label in row k of the merged table
MergedCell(k, label) ==
    m_out.rows[k][CHOOSE c \in 1..Len(m_out.columns) : m_out.columns[c] = label]

\* C16: the merge raises exactly when no file was read; otherwise the result
\* holds the rows of the files read, in order, each with its channel and file
C16_MergeSkipsUnreadable ==
    MergeDone =>
        /\ m_out.error <=> ReadOk = <<>>
        /\ ~m_out.error =>
              LET expected == RowsOfFiles(ReadOk)
              IN /\ Len(m_out.rows) = Len(expected)
                 /\ \A k \in 1..Len(expected) :
                       /\ MergedCell(k, <<"_", "_", "s", "o", "u", "r", "c", "e", "_", "f", "i", "l", "e">>) = expected[k][1].name
                       /\ MergedCell(k, <<"c", "a", "n", "a", "l">>) =
                             canal_for(expected[k][1].name,
                                       _unique_headers(expected[k][1].headers))
                       /\ \E c \in 1..Len(m_out.columns) :
                             m_out.rows[k][c] = <<expected[k][1].name, 1, expected[k][2]>>

\* ------------------------------------------------------------ read_dataframe
\* C20: the column names read_dataframe sets are pairwise distinct
C20_HeadersDistinct == h_pc = "done" => ~HasDuplicates(h_out)

\* ------------------------------------------------------- runs and status
\* the stage task w is about to run raises
Raises(w) ==
    LET t == tasks[w]
    IN \/ t.pc = "Ingesta" /\ uploads[t.pid] = "corrupt"
       \/ t.pc = "Limpieza" /\ uploads[t.pid] = "bad_clean"
       \/ t.pc = "load" /\ {"dataset_unificado.csv", "dataset_limpio.csv"} \cap art_files[t.pid] = {}
       \/ t.pc = "Reporte" /\ uploads[t.pid] = "bad_report"

PhaseStarted == {"phase_1_started", "phase_2_started"}

\* the position of the last process_failed event in a history, 0 if none
LastFailure(h) ==
    LET S == {j \in 1..Len(h) : h[j] = "process_failed"}
    IN IF S = {} THEN 0 ELSE CHOOSE j \in S : \A k \in S : k <= j

\* C17: when a stage of a phase raises, the phase function ends with the
\* persisted status failed and its error text, a process_failed event at the
\* end of the history and every metric and artifact persisted so far still
\* persisted; a status that is failed is written again only by a phase
\* that started after the failure
C17_FailureIsPersisted ==
    [][/\ \A w \in 1..MaxTasks :
            (w <= Len(tasks) /\ Raises(w) /\ tasks'[w] # tasks[w]) =>
                LET id == tasks[w].pid
                IN /\ tasks'[w].pc = "done"
                   /\ status_json'[id].data.status = "failed"
                   /\ status_json'[id].data.error # ""
                   /\ history'[id][Len(history'[id])] = "process_failed"
                   /\ status_json[id].data.metrics \subseteq status_json'[id].data.metrics
                   /\ status_json[id].data.artifacts \subseteq status_json'[id].data.artifacts
       /\ \A id \in RunIds :
            (status_json[id].data.status = "failed" /\ status_json'[id] # status_json[id]) =>
                \E j \in (LastFailure(history[id]) + 1)..Len(history'[id]) :
                    history'[id][j] \in PhaseStarted]_vars

FinishedStates == {"completed", "done", "finished", "success", "ok"}

RequiredArtifacts ==
    {"reporte_perfilado.html", "dataset_limpio.csv", "dashboard.html", "reporte_integrado.html"}

\* the client has asked for the dashboard of run id
DashboardRequested(id) == \E w \in 1..Len(tasks) : tasks[w].pid = id /\ tasks[w].phase = 2

\* C18: once POST /api/process has accepted a valid file, and unless the
\* client sends a further request for the run, GET /api/status/{id}
\* eventually shows a finished state together with the four artifacts
C18_EventuallyFinished ==
    \A id \in RunIds :
        [](resp = [req |-> "process", id |-> id, code |-> 201,
                   body |-> [EmptyDict EXCEPT !.id = id, !.status = "queued"]]
           /\ uploads[id] = "valid"
           => <>(\/ DashboardRequested(id)
                 \/ /\ read_status(id).status \in FinishedStates
                    /\ RequiredArtifacts \subseteq read_status(id).artifacts))

\* a run exists for id: its directory was created
RunExists(id) == uploads[id] # "none" \/ status_json[id].exists

\* C19: GET /api/status/{id} for an id without a run answers 404 or 400
C19_UnknownIdIsError ==
    (resp.req = "status" /\ ~RunExists(resp.id)) => resp.code \in {400, 404}

\* --------------------------------------------------------------- _get_st_model
\* callers that have found _st_model None and are constructing or encoding
Loading == {c \in CallerIds : g_pc[c] \in {"load", "encode"}}

\* C21: at most one caller ever loads the model, and a caller that got the
\* model finds the canonical embeddings set
C21_ModelLoadedOnce ==
    /\ Cardinality(Loading) <= 1
    /\ \A c \in CallerIds :
          (g_pc[c] = "match" /\ g_model[c] # None) => st_canonical_emb # None

\* ------------------------------------------------------------ inferred_types
\* C22: every role in the persisted metrics.inferred_types of a run is one of
\* the eight roles of the Schema
C22_RolesInClosedSet ==
    \A id \in RunIds :
        \A p \in status_json[id].data.inferred_types : p[2] \in Range(RoleOrder)

\* ------------------------------------------------------------ run isolation
TasksOf(id) == {w \in 1..Len(tasks) : tasks[w].pid = id}

\* run id was created by POST /api/process, no dashboard was asked for it and
\* its ingestion phase has ended
IngestionEnded(id) ==
    /\ uploads[id] # "none"
    /\ \A w \in TasksOf(id) : tasks[w].phase = 1 /\ tasks[w].pc = "done"

\* C23: a step of a task of one run leaves status.json, history.jsonl and the
\* artifacts of every other run as they are, and a run whose ingestion phase
\* has ended has the persisted status it reaches when it runs alone
C23_RunsIsolated ==
    /\ [][\A w \in 1..MaxTasks :
            (w <= Len(tasks) /\ tasks'[w] # tasks[w]) =>
                \A id \in RunIds \ {tasks[w].pid} :
                    /\ status_json'[id] = status_json[id]
                    /\ history'[id] = history[id]
                    /\ art_files'[id] = art_files[id]]_vars
    /\ [](\A id \in RunIds :
            IngestionEnded(id) => status_json[id].data = ingestion_alone(id, uploads[id]))

\* two runs were served at the same time; the first failed, the second did not
C23_Witness ==
    /\ IngestionEnded(1) /\ IngestionEnded(2)
    /\ status_json[1].data.status = "failed"
    /\ status_json[2].data.status = "waiting_dashboard"
    /\ Len(history[1]) > 2 /\ Len(history[2]) > 2

\* ------------------------------------------------------ reconciliation, frame
\* the city sales row i has on input, and whether it is a value: neither null
\* nor a placeholder
OwnCity(i) == In[i].vals[CiudadEnvio]

HasOwnCity(i) == _clean_text_series_loose(OwnCity(i)) # NAtext

\* C24 as stated: a city of a sales row that is neither null nor a placeholder
\* is the row's city after the merge
C24_AsStated ==
    ReconDone => \A i \in Sales : HasOwnCity(i) => OutRow(i).vals[CiudadEnvio] = OwnCity(i)

\* C24 amended: it is the row's city after the merge up to surrounding
\* whitespace, whatever the matching shipments hold
C24_Amended ==
    ReconDone =>
        \A i \in Sales :
            HasOwnCity(i) =>
                Strip(OutRow(i).vals[CiudadEnvio], Whitespace) = Strip(OwnCity(i), Whitespace)

\* a sales row with a city of its own was merged with a shipment of another city
C24_Witness ==
    /\ ReconDone /\ Resolvable
    /\ \E i \in Sales :
          /\ HasOwnCity(i)
          /\ \E j \in ShipmentsOf(i) : CityOf(j) \notin {NAtext, OutRow(i).vals[CiudadEnvio]}

\* ------------------------------------------- _fix_structural_errors, frame
\* the anchor value of row i of the table handed in
AnchorValue(i) == f_df.rows[i][FixAnchor.col]

\* rows whose anchor value is null or a valid date
SoundRows == {i \in 1..Len(f_df.rows) : _is_na(AnchorValue(i)) \/ _is_valid_date(AnchorValue(i))}

\* C25: a row whose anchor value is valid or null has the same value in every
\* column after _fix_structural_errors as before
C25_SoundRowsUnchanged ==
    (FixDone /\ HasAnchor) =>
        \A i \in SoundRows : i <= Len(f_out.df.rows) /\ f_out.df.rows[i] = f_df.rows[i]

\* the repair fired and changed a row, in a table that also has a row with a
\* null and a row with a valid anchor value
C25_Witness ==
    /\ FixDone /\ HasAnchor /\ f_out.fixes # <<>>
    /\ \E i \in 1..Len(f_df.rows) : f_out.df.rows[i] # f_df.rows[i]
    /\ \E i \in SoundRows : _is_na(AnchorValue(i))
    /\ \E i \in SoundRows : _is_valid_date(AnchorValue(i))

\* ------------------------------------------ _fix_structural_errors, the shape
\* the repair fired on the table
Fired == FixDone /\ HasAnchor /\ f_out.fixes # <<>>

\* row i came out with its first two values joined in column 1, the values of
\* columns 3..n in columns 2..n-1 and null in column n
Repaired(i) ==
    LET n == Len(f_df.columns)
        old == f_df.rows[i]
        new == f_out.df.rows[i]
    IN /\ Len(new) = n
       /\ new[1] = old[1] \o <<",", " ">> \o old[2]
       /\ \A k \in 2..(n - 1) : new[k] = old[k + 1]
       /\ new[n] = NaN

\* the anchor column of row i holds what stood one column to its right
AnchorFromRight(i) ==
    /\ FixAnchor.col < Len(f_df.columns)
    /\ f_out.df.rows[i][FixAnchor.col] = f_df.rows[i][FixAnchor.col + 1]

MoneyDone == pm_pc = "done"

Separators == {",", "."}

\* the one separator rule: the last separator is the decimal point when at most
\* 2 digits follow it, and every other separator groups thousands
rule_text(clean_str) ==
    LET seps == {i \in 1..Len(clean_str) : clean_str[i] \in Separators}
        last == IF seps = {} THEN 0 ELSE CHOOSE i \in seps : \A j \in seps : j <= i
    IN IF last # 0 /\ Len(clean_str) - last <= 2
       THEN SelectSeq(SubSeq(clean_str, 1, last - 1), LAMBDA ch : ch \notin Separators)
            \o <<".">> \o SubSeq(clean_str, last + 1, Len(clean_str))
       ELSE SelectSeq(clean_str, LAMBDA ch : ch \notin Separators)

\* the cell holds digits in groups between its separators, as amounts do
WellFormed(clean_str) ==
    /\ clean_str # <<>>
    /\ Head(clean_str) \notin Separators
    /\ clean_str[Len(clean_str)] \notin Separators
    /\ \A i \in 1..(Len(clean_str) - 1) :
          ~(clean_str[i] \in Separators /\ clean_str[i + 1] \in Separators)

\* C27: the value of a money cell is the one the separator rule gives, for ","
\* and "." alike, and it is the same under every currency symbol or code
C27_OneSeparatorRule ==
    (MoneyDone /\ WellFormed(MoneyDigits(pm_val))) =>
        /\ pm_out.value = ParseFloat(rule_text(MoneyDigits(pm_val)))
        /\ \A c \in Currencies : _parse_money_value(c \o MoneyDigits(pm_val)).value = pm_out.value

\* ------------------------------------------------ the two phases of one run
FiveSteps == {"Subir archivo", "Perfilado", "Limpieza", "Dashboard", "Reporte"}

Completed(id) == status_json[id].exists /\ status_json[id].data.status = "completed"

\* C28: a run whose persisted status is "completed" has progress 100 and its
\* five steps "ok", and no step of an ingestion task replaces "completed"
C28_CompletedIsFinal ==
    /\ [](\A id \in RunIds :
            Completed(id) =>
                status_json[id].data.progress = 100 /\ FiveSteps \subseteq status_json[id].data.steps)
    /\ [][\A w \in 1..MaxTasks :
            (w <= Len(tasks) /\ tasks[w].phase = 1 /\ tasks'[w] # tasks[w] /\ Completed(tasks[w].pid))
                => status_json'[tasks[w].pid].data.status = "completed"]_vars

\* ------------------------------------------------------------- write_status
\* the documents written whole so far: the initial one and that of every
\* writer that has begun its call
WrittenDocs == {Doc(0, 1)} \cup {Doc(w, a_len[w]) : w \in {v \in WriterIds : a_pc[v] # "idle"}}

\* C29: a read_status obtains one complete document that some write_status
\* call wrote, and no write_status call fails
C29_WriteStatusAtomic ==
    /\ a_read.called => a_read.content \in WrittenDocs
    /\ \A w \in WriterIds : a_pc[w] # "raised"

\* ------------------------------------------- shipments without sales, the run
LimpiezaDone == l_pc = "done"

\* row k of the table reconciliation returned is a duplicate of an earlier one
DuplicateRow(k) ==
    \E j \in 1..(k - 1) :
        \A c \in DOMAIN Out[k].vals :
            trim_and_replace(Out[j].vals[c]) = trim_and_replace(Out[k].vals[c])

\* C30: in a run with shipment rows and no sales rows, every row that
\* reconciliation kept is a row of dataset_limpio.csv unless it is a duplicate
C30_ShipmentsReachCsv ==
    (LimpiezaDone /\ Envios # {} /\ Sales = {}) =>
        \A k \in 1..Len(Out) :
            DuplicateRow(k) \/ \E r \in 1..Len(dataset_limpio.rows) : dataset_limpio.rows[r].idx = Out[k].idx
====
